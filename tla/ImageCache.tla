----------------------------- MODULE ImageCache -----------------------------
(***************************************************************************)
(* The step "Local example service ... is built by Maven and deployed to   *)
(* runtime registry" of bddframework/pkg/steps/image_registry.go, taken by *)
(* scenarios that run concurrently.  Each has the examples in a folder of  *)
(* its own; they share the container engine with its local images, the     *)
(* registry, and the Dockerfile providers of                               *)
(* pkg/framework/dockerfile_provider.go, one struct per kind of project.   *)
(*                                                                         *)
(* The words of a name are numbers, which have an order as strings have.   *)
(* An image is known by what it is built from, and when.                   *)
(***************************************************************************)
EXTENDS Integers, Sequences, SequencesExt

CONSTANTS Scenarios,
          Builds    \* records [dir, base, kind, native, profiles, options]: the
                    \* context directory and the words of its last part, what Maven
                    \* puts into target/; the Maven configuration: whether it asks
                    \* for a native build, sets of profiles and options

Kinds == {"native", "fastJar", "legacyJar", "springboot"}

NativeProfile == 0

ASSUME ConstAssumption ==
    \A b \in Builds : /\ b.base \in Seq(Nat) /\ b.base # <<>>
                      /\ b.kind \in Kinds
                      /\ b.native \in BOOLEAN
                      /\ b.profiles \in SUBSET Nat
                      /\ b.options \in SUBSET Nat

Sorted(words) == SetToSortSeq(words, <)

\* getProjectImageName: all the parts are joined with the character that also
\* joins the words of each.  Native is what the configuration asks for, whatever
\* Maven makes of it.
ImageName(b) ==
    b.base \o Sorted(b.profiles)
           \o (IF b.native THEN <<NativeProfile>> ELSE <<>>)
           \o Sorted(b.options)

Names == {ImageName(b) : b \in Builds}

NoImage == [of |-> {}, age |-> "none"]
Image(b, age) == [of |-> {b}, age |-> age]
Images == {NoImage} \cup {Image(b, age) : b \in Builds, age \in {"earlier", "now"}}

VARIABLES
    mode,        \* image_cache_mode
    configured,  \* there is a runtime_application_image_registry
    earlier,     \* builds whose images are in the registry from earlier runs,
                 \* as far as the scenarios use their names
    build,       \* [Scenarios -> what the step is about]
    pc,          \* [Scenarios -> where the step is]
    location,    \* [Kinds -> projectLocation of the provider: words of its base]
    dockerfile,  \* [Scenarios -> base named by the Dockerfile in its folder]
    local,       \* [Names -> image in the container engine]
    registry,    \* [Names -> image in the registry]
    brokenCall   \* scenarios in which a command has failed (history)

config == <<mode, configured, earlier, build>>
vars   == <<config, pc, location, dockerfile, local, registry, brokenCall>>

Tag(s) == ImageName(build[s])

Bases == {b.base : b \in Builds}
NoBase == <<>>

TypeOK ==
    /\ mode \in {"always", "never", "if-available"}
    /\ configured \in {"no", "yes"}
    /\ earlier \in SUBSET Builds
    /\ build \in [Scenarios -> Builds]
    /\ pc \in [Scenarios -> {"idle", "pull", "maven", "provider", "content", "image",
                             "push", "clean", "succeeded", "failed"}]
    /\ location \in [Kinds -> Bases \cup {NoBase}]
    /\ dockerfile \in [Scenarios -> Bases \cup {NoBase}]
    /\ local \in [Names -> Images]
    /\ registry \in [Names -> Images]
    /\ brokenCall \in SUBSET Scenarios

Init ==
    /\ mode \in {"always", "never", "if-available"}
    /\ configured \in {"no", "yes"}
    /\ build \in [Scenarios -> Builds]
    /\ earlier \in {e \in SUBSET {b \in Builds : \E s \in Scenarios : ImageName(b) = Tag(s)} :
                      \A b, c \in e : ImageName(b) = ImageName(c) => b = c}
    /\ pc = [s \in Scenarios |-> "idle"]
    /\ location = [k \in Kinds |-> NoBase]
    /\ dockerfile = [s \in Scenarios |-> NoBase]
    /\ registry = [n \in Names |->
                     IF \E b \in earlier : ImageName(b) = n
                     THEN Image(CHOOSE b \in earlier : ImageName(b) = n, "earlier")
                     ELSE NoImage]
    /\ local = registry
    /\ brokenCall = {}

Goto(s, from, to) == pc[s] = from /\ pc' = [pc EXCEPT ![s] = to]

\* needToBuildImage, and the error of getRuntimeApplicationImageTag.
Begin(s) ==
    /\ Goto(s, "idle",
            CASE configured = "no" -> "failed"
              [] configured = "yes" /\ mode = "always" -> "succeeded"
              [] configured = "yes" /\ mode = "never" -> "maven"
              [] configured = "yes" /\ mode = "if-available" -> "pull")
    /\ UNCHANGED <<config, location, dockerfile, local, registry, brokenCall>>

Pull(s) ==
    /\ IF registry[Tag(s)] = NoImage
       THEN Goto(s, "pull", "maven") /\ UNCHANGED local
       ELSE Goto(s, "pull", "succeeded") /\ local' = [local EXCEPT ![Tag(s)] = registry[Tag(s)]]
    /\ UNCHANGED <<config, location, dockerfile, registry, brokenCall>>

\* An error of any kind means that the image is not available.
PullFails(s) ==
    /\ Goto(s, "pull", "maven")
    /\ UNCHANGED <<config, location, dockerfile, local, registry, brokenCall>>

Maven(s) ==
    /\ Goto(s, "maven", "provider")
    /\ UNCHANGED <<config, location, dockerfile, local, registry, brokenCall>>

\* Seeded fault: one struct for every kind of project.
Provider_One(s) ==
    /\ Goto(s, "provider", "content")
    /\ location' = [k \in Kinds |-> build[s].base]
    /\ UNCHANGED <<config, dockerfile, local, registry, brokenCall>>

\* Seeded fault: the folder is stored instead of the provider of its kind.
Provider_WholeFolder(s) ==
    /\ Goto(s, "provider", "content")
    /\ location' = [location EXCEPT ![build[s].kind] = build[s]]
    /\ UNCHANGED <<config, dockerfile, local, registry, brokenCall>>

\* GetKogitoApplicationDockerfileProvider: the location is put into the struct
\* that all projects of the kind share.
Provider(s) ==
    /\ Goto(s, "provider", "content")
    /\ location' = [location EXCEPT ![build[s].kind] = build[s].base]
    /\ UNCHANGED <<config, dockerfile, local, registry, brokenCall>>

\* fileWithSuffixExists panics when it cannot read target/, before anything is
\* stored.  Godog turns the panic of a step into its error.
ProviderPanics(s) ==
    /\ Goto(s, "provider", "failed")
    /\ brokenCall' = brokenCall \cup {s}
    /\ UNCHANGED <<config, location, dockerfile, local, registry>>

\* GetDockerfileContent reads it from there; of a fast jar the name of the
\* application is fixed.  CreateFile.
Content(s) ==
    /\ Goto(s, "content", "image")
    /\ dockerfile' = [dockerfile EXCEPT ![s] = IF build[s].kind = "fastJar" THEN build[s].base
                                               ELSE location[build[s].kind]]
    /\ UNCHANGED <<config, location, local, registry, brokenCall>>

\* Seeded fault: the engine goes on after an error.
BuildImage_ErrorLost(s) ==
    /\ Goto(s, "image", "push")
    /\ local' = IF dockerfile[s] = build[s].base
                THEN [local EXCEPT ![Tag(s)] = Image(build[s], "now")] ELSE local
    /\ UNCHANGED <<config, location, dockerfile, registry, brokenCall>>

\* The application that the Dockerfile copies is in the folder, or the build fails
\* and PushImage does nothing.
BuildImage(s) ==
    /\ IF dockerfile[s] = build[s].base
       THEN Goto(s, "image", "push") /\ local' = [local EXCEPT ![Tag(s)] = Image(build[s], "now")]
       ELSE Goto(s, "image", "failed") /\ UNCHANGED local
    /\ UNCHANGED <<config, location, dockerfile, registry, brokenCall>>

PushImage(s) ==
    /\ Goto(s, "push", "clean")
    /\ registry' = [registry EXCEPT ![Tag(s)] = local[Tag(s)]]
    /\ UNCHANGED <<config, location, dockerfile, local, brokenCall>>

\* Delete the Dockerfile, and put the tag into the scenario context.
Clean(s) ==
    /\ Goto(s, "clean", "succeeded")
    /\ dockerfile' = [dockerfile EXCEPT ![s] = NoBase]
    /\ UNCHANGED <<config, location, local, registry, brokenCall>>

\* Maven, the engine (for the last time it is tried) or the file system fails.
CallFails(s) ==
    /\ \E from \in {"maven", "content", "image", "push", "clean"} : Goto(s, from, "failed")
    /\ brokenCall' = brokenCall \cup {s}
    /\ UNCHANGED <<config, location, dockerfile, local, registry>>

Step(s) == \/ Begin(s) \/ Pull(s) \/ PullFails(s) \/ Maven(s) \/ Provider(s)
           \/ ProviderPanics(s) \/ Content(s) \/ BuildImage(s) \/ PushImage(s) \/ Clean(s) \/ CallFails(s)

Terminated == (\A s \in Scenarios : pc[s] \in {"succeeded", "failed"}) /\ UNCHANGED vars

Next == (\E s \in Scenarios : Step(s)) \/ Terminated

Spec == Init /\ [][Next]_vars

(***************************************************************************)
(* Properties.                                                             *)
(***************************************************************************)

\* The name of the image is that of no other build of this run or an earlier one.
NameIsUnique(s) ==
    \A b \in earlier \cup {build[t] : t \in Scenarios} :
        ImageName(b) = Tag(s) => b = build[s]

\* Unless the cache is trusted blindly, the image that a successful step leaves
\* for the next ones is built from its own project, with its own configuration,
\* and in this run if the cache is not to be used: whatever other scenarios do to
\* the shared provider, engine and registry, if their images have other names.
ImageIsOwn ==
    \A s \in Scenarios :
        pc[s] = "succeeded" /\ mode # "always" /\ NameIsUnique(s) =>
            /\ registry[Tag(s)].of = {build[s]}
            /\ mode = "never" => registry[Tag(s)].age = "now"

\* All that the provider shared by the scenarios can spoil: a step in which every
\* command has worked fails only if another one builds a project of the same kind
\* and of another name.
FailsOnlyByProvider ==
    \A s \in Scenarios :
        pc[s] = "failed" /\ s \notin brokenCall /\ configured = "yes" =>
            /\ build[s].kind # "fastJar"
            /\ \E t \in Scenarios : /\ build[t].kind = build[s].kind
                                    /\ build[t].base # build[s].base
=============================================================================
