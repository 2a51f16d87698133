---------------------------- MODULE MCImageCache ----------------------------
(***************************************************************************)
(* TLC instance of ImageCache: projects that differ in one thing each, and *)
(* among them some whose images have the same name - of two directories    *)
(* with the same last part, and of a profile that looks like a part of the *)
(* project's name - and one that asks for a native build and gets a jar.                                                           *)
(***************************************************************************)
EXTENDS ImageCache

Project(dir, base, kind, native, profiles, options) ==
    [dir |-> dir, base |-> base, kind |-> kind, native |-> native,
     profiles |-> profiles, options |-> options]

MCBuilds == {
    Project("a", <<1>>, "springboot", FALSE, {}, {}),
    Project("b", <<1>>, "springboot", FALSE, {}, {}),
    Project("a", <<1>>, "springboot", FALSE, {2}, {}),
    Project("c", <<1, 2>>, "springboot", FALSE, {}, {}),
    Project("d", <<3>>, "native", TRUE, {}, {4}),
    Project("d", <<3>>, "fastJar", TRUE, {}, {}),
    Project("e", <<5>>, "fastJar", FALSE, {6}, {}),
    Project("f", <<7>>, "fastJar", FALSE, {}, {})}
=============================================================================
