-------------------------- MODULE ImageCacheProofs --------------------------
(***************************************************************************)
(* Proofs about ImageCache, for any scenarios and projects, however the    *)
(* names of their images are made: what scenarios that share the provider, *)
(* the engine and the registry can spoil of each other's images.           *)
(***************************************************************************)
EXTENDS ImageCache, TLAPS

\* The builds an image can come from.
Sources == earlier \cup {build[t] : t \in Scenarios}

\* An image is what one of these builds has made under its name.
Named(images) ==
    \A n \in Names : images[n] # NoImage =>
        \E b \in Sources : images[n].of = {b} /\ ImageName(b) = n

\* There is an image with the tag of the scenario, of this run if there must be.
Fresh(s, images) ==
    /\ images[Tag(s)] # NoImage
    /\ mode = "never" => images[Tag(s)].age = "now"

\* What is pushed has been built; what is pushed or pulled is in the registry.
Pushed ==
    \A s \in Scenarios :
        /\ pc[s] = "push" => Fresh(s, local)
        /\ pc[s] = "clean" => Fresh(s, registry)
        /\ pc[s] = "succeeded" /\ mode # "always" => Fresh(s, registry)
        /\ pc[s] = "pull" => mode = "if-available"

\* The location in a provider is that of some scenario's project of its kind.
Located ==
    /\ \A k \in Kinds : location[k] # NoBase =>
         \E t \in Scenarios : build[t].kind = k /\ build[t].base = location[k]
    /\ \A s \in Scenarios : pc[s] = "content" => location[build[s].kind] # NoBase
    /\ \A s \in Scenarios : pc[s] = "image" /\ dockerfile[s] # build[s].base =>
         /\ build[s].kind # "fastJar"
         /\ \E t \in Scenarios : build[t].kind = build[s].kind /\ build[t].base # build[s].base

IInv == /\ TypeOK /\ Named(local) /\ Named(registry) /\ Pushed
        /\ Located /\ FailsOnlyByProvider

LEMMA NoImageIsNone == ASSUME NEW b, NEW age PROVE Image(b, age) # NoImage
  BY DEF Image, NoImage

LEMMA TagIsName == TypeOK => \A s \in Scenarios : Tag(s) \in Names
  BY DEF TypeOK, Tag, Names

\* The invariant holds before the first step is taken.
LEMMA InitIInv == Init => IInv
<1> SUFFICES ASSUME Init PROVE IInv
  OBVIOUS
<1>1. \A n \in Names : \/ registry[n] = NoImage
                       \/ \E b \in earlier : registry[n] = Image(b, "earlier") /\ ImageName(b) = n
  <2> SUFFICES ASSUME NEW n \in Names, \E b \in earlier : ImageName(b) = n
               PROVE  \E b \in earlier : registry[n] = Image(b, "earlier") /\ ImageName(b) = n
    BY DEF Init
  <2> QED
    BY DEF Init
<1>2. registry \in [Names -> Images]
  <2>1. earlier \subseteq Builds
    BY DEF Init
  <2>2. DOMAIN registry = Names /\ registry = [n \in Names |-> registry[n]]
    BY DEF Init
  <2> QED
    BY <1>1, <2>1, <2>2 DEF Images
<1>3. TypeOK
  BY <1>2 DEF Init, TypeOK
<1>4. Named(registry) /\ Named(local)
  BY <1>1 DEF Init, Named, Sources, Image
<1>5. Pushed /\ Located /\ FailsOnlyByProvider
  BY DEF Init, Pushed, Located, FailsOnlyByProvider
<1> QED
  BY <1>3, <1>4, <1>5 DEF IInv

\* A scenario keeps the types, and moves nobody else.
LEMMA StepTypeOK ==
    ASSUME TypeOK, NEW s \in Scenarios, Step(s)
    PROVE  TypeOK' /\ UNCHANGED config /\ \A t \in Scenarios \ {s} : pc'[t] = pc[t]
<1> USE DEF TypeOK, Goto, config
<1>0. Tag(s) \in Names /\ build[s] \in Builds /\ build[s].kind \in Kinds /\ build[s].base \in Bases
  BY TagIsName, ConstAssumption DEF Bases
<1>a. Image(build[s], "now") \in Images
  BY <1>0 DEF Images
<1>1. CASE Begin(s)
  BY <1>0, <1>1 DEF Begin
<1>2. CASE Pull(s)
  BY <1>0, <1>2 DEF Pull
<1>3. CASE PullFails(s)
  BY <1>0, <1>3 DEF PullFails
<1>4. CASE Maven(s)
  BY <1>0, <1>4 DEF Maven
<1>5. CASE Provider(s)
  BY <1>0, <1>5 DEF Provider
<1>6. CASE Content(s)
  BY <1>0, <1>6 DEF Content
<1>7. CASE BuildImage(s)
  BY <1>0, <1>a, <1>7 DEF BuildImage
<1>8. CASE PushImage(s)
  BY <1>0, <1>8 DEF PushImage
<1>9. CASE Clean(s)
  BY <1>0, <1>9 DEF Clean
<1>10. CASE CallFails(s)
  BY <1>0, <1>10 DEF CallFails
<1>11. CASE ProviderPanics(s)
  BY <1>0, <1>11 DEF ProviderPanics
<1> QED
  BY <1>1, <1>2, <1>3, <1>4, <1>5, <1>6, <1>7, <1>8, <1>9, <1>10, <1>11 DEF Step

\* The images keep their names.
LEMMA StepNamed ==
    ASSUME IInv, NEW s \in Scenarios, Step(s)
    PROVE  Named(local)' /\ Named(registry)'
<1> USE DEF IInv, TypeOK, Goto, config, Named, Sources
<1>0. Tag(s) \in Names /\ Tag(s) = ImageName(build[s]) /\ build[s] \in Sources
  BY TagIsName DEF Tag
<1>a. Image(build[s], "now").of = {build[s]}
  BY DEF Image
<1>1. CASE Begin(s)
  BY <1>0, <1>1 DEF Begin
<1>2. CASE Pull(s)
  BY <1>0, <1>2 DEF Pull
<1>3. CASE PullFails(s)
  BY <1>0, <1>3 DEF PullFails
<1>4. CASE Maven(s)
  BY <1>0, <1>4 DEF Maven
<1>5. CASE Provider(s)
  BY <1>0, <1>5 DEF Provider
<1>6. CASE Content(s)
  BY <1>0, <1>6 DEF Content
<1>7. CASE BuildImage(s)
  BY <1>0, <1>a, <1>7 DEF BuildImage
<1>8. CASE PushImage(s)
  BY <1>0, <1>8 DEF PushImage
<1>9. CASE Clean(s)
  BY <1>0, <1>9 DEF Clean
<1>10. CASE CallFails(s)
  BY <1>0, <1>10 DEF CallFails
<1>11. CASE ProviderPanics(s)
  BY <1>0, <1>11 DEF ProviderPanics
<1> QED
  BY <1>1, <1>2, <1>3, <1>4, <1>5, <1>6, <1>7, <1>8, <1>9, <1>10, <1>11 DEF Step

\* What a scenario builds, pushes or pulls is there when it goes on, and another
\* one replaces it only by another fresh image.
LEMMA StepPushed ==
    ASSUME IInv, NEW s \in Scenarios, Step(s)
    PROVE  Pushed'
<1> USE DEF IInv, TypeOK, Goto, config, Pushed, Fresh, Tag
<1>0. Tag(s) \in Names /\ \A t \in Scenarios : Tag(t) \in Names
  BY TagIsName
<1>a. Image(build[s], "now").age = "now" /\ Image(build[s], "now") # NoImage
  BY NoImageIsNone DEF Image
<1>1. CASE Begin(s)
  BY <1>0, <1>1 DEF Begin
<1>2. CASE Pull(s)
  BY <1>0, <1>2 DEF Pull
<1>3. CASE PullFails(s)
  BY <1>0, <1>3 DEF PullFails
<1>4. CASE Maven(s)
  BY <1>0, <1>4 DEF Maven
<1>5. CASE Provider(s)
  BY <1>0, <1>5 DEF Provider
<1>6. CASE Content(s)
  BY <1>0, <1>6 DEF Content
<1>7. CASE BuildImage(s)
  BY <1>0, <1>a, <1>7 DEF BuildImage
<1>8. CASE PushImage(s)
  BY <1>0, <1>8 DEF PushImage
<1>9. CASE Clean(s)
  BY <1>0, <1>9 DEF Clean
<1>10. CASE CallFails(s)
  BY <1>0, <1>10 DEF CallFails
<1>11. CASE ProviderPanics(s)
  BY <1>0, <1>11 DEF ProviderPanics
<1> QED
  BY <1>1, <1>2, <1>3, <1>4, <1>5, <1>6, <1>7, <1>8, <1>9, <1>10, <1>11 DEF Step

\* The provider is all that spoils a Dockerfile.
LEMMA StepLocated ==
    ASSUME IInv, NEW s \in Scenarios, Step(s)
    PROVE  Located' /\ FailsOnlyByProvider'
<1> USE DEF IInv, TypeOK, Goto, config, Located, FailsOnlyByProvider
<1>0. build[s] \in Builds /\ build[s].kind \in Kinds /\ build[s].base # NoBase
  BY ConstAssumption DEF NoBase
<1>1. CASE Begin(s)
  BY <1>0, <1>1 DEF Begin
<1>2. CASE Pull(s)
  BY <1>0, <1>2 DEF Pull
<1>3. CASE PullFails(s)
  BY <1>0, <1>3 DEF PullFails
<1>4. CASE Maven(s)
  BY <1>0, <1>4 DEF Maven
<1>5. CASE Provider(s)
  BY <1>0, <1>5 DEF Provider
<1>6. CASE Content(s)
  BY <1>0, <1>6 DEF Content
<1>7. CASE BuildImage(s)
  BY <1>0, <1>7 DEF BuildImage
<1>8. CASE PushImage(s)
  BY <1>0, <1>8 DEF PushImage
<1>9. CASE Clean(s)
  BY <1>0, <1>9 DEF Clean
<1>10. CASE CallFails(s)
  BY <1>0, <1>10 DEF CallFails
<1>11. CASE ProviderPanics(s)
  BY <1>0, <1>11 DEF ProviderPanics
<1> QED
  BY <1>1, <1>2, <1>3, <1>4, <1>5, <1>6, <1>7, <1>8, <1>9, <1>10, <1>11 DEF Step

LEMMA StepIInv == IInv /\ [Next]_vars => IInv'
<1> SUFFICES ASSUME IInv, [Next]_vars PROVE IInv'
  OBVIOUS
<1>1. ASSUME NEW s \in Scenarios, Step(s) PROVE IInv'
  BY <1>1, StepTypeOK, StepNamed, StepPushed, StepLocated DEF IInv
<1>2. CASE UNCHANGED vars
  BY <1>2 DEF vars, config, IInv, TypeOK, Named, Sources, Pushed, Fresh, Tag, Located,
              FailsOnlyByProvider
<1> QED
  BY <1>1, <1>2 DEF Next, Terminated

LEMMA AlwaysIInv == Spec => []IInv
  BY InitIInv, StepIInv, PTL DEF Spec

\* Scenarios, providers and images keep their types, for any projects.
THEOREM TypeCorrect == Spec => []TypeOK
<1>1. IInv => TypeOK
  BY DEF IInv
<1> QED
  BY <1>1, AlwaysIInv, PTL

\* A scenario whose image name is its own gets its own image, however many
\* scenarios use the provider, the engine and the registry at the same time.
THEOREM OwnImage == Spec => []ImageIsOwn
<1>1. IInv => ImageIsOwn
  <2> SUFFICES ASSUME IInv, NEW s \in Scenarios,
                      pc[s] = "succeeded", mode # "always", NameIsUnique(s)
               PROVE  /\ registry[Tag(s)].of = {build[s]}
                      /\ mode = "never" => registry[Tag(s)].age = "now"
    BY DEF ImageIsOwn
  <2>1. Fresh(s, registry)
    BY DEF IInv, Pushed
  <2>2. PICK b \in Sources : registry[Tag(s)].of = {b} /\ ImageName(b) = Tag(s)
    BY <2>1, TagIsName DEF IInv, Named, Fresh
  <2>3. b = build[s]
    BY <2>2 DEF NameIsUnique, Sources
  <2> QED
    BY <2>1, <2>2, <2>3 DEF Fresh
<1> QED
  BY <1>1, AlwaysIInv, PTL

\* A step in which every command has worked fails only by the provider it shares
\* with a project of the same kind and of another name.
THEOREM ProviderClash == Spec => []FailsOnlyByProvider
<1>1. IInv => FailsOnlyByProvider
  BY DEF IInv
<1> QED
  BY <1>1, AlwaysIInv, PTL
=============================================================================
