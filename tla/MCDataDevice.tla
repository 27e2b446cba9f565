---------------------------- MODULE MCDataDevice ----------------------------
(* Model checking of DataDevice, and of DataFormats over all its inputs.     *)
EXTENDS DataDevice, DataFormats, FiniteSetsExt, TLC

Interchangeable ==
  Permutations(Devices) \cup Permutations(Sources) \cup Permutations(Contents)

\* The functions from some of names, each to one of its options.
Combinations(names, Options(_)) ==
  FoldSet(LAMBDA n, fs : fs \cup {f @@ (n :> o) : f \in fs, o \in Options(n)}, {NoFields}, names)

\* What may be read from a client for a type.
Kinds(m) ==
  {"empty"} \cup CASE m \in {Plain, Utf8} -> {"text", "url"}
                   [] m \in {MozUrl, Netscape} -> {"url"}
                   [] m = UriList -> {"files", "url"}
                   [] m = Png -> {"image", "junk"}
                   [] OTHER -> {"text"}

AllClientData ==
  Combinations({Plain, Utf8, Utf8String, UriList, MozUrl, Netscape, Png, "text/html", "DELETE"}, Kinds)

\* The fields that Haiku's programs may put under a name.
Fields(n) ==
  LET Values(kinds) == {[is |-> k, of |-> n] : k \in kinds}
      Typed(types, kinds) == [type : types, value : Values(kinds)]
  IN CASE n \in {Plain, "text/html"} -> Typed({Mime, String}, {"text"})
       [] n \in {Utf8, UriList, Png} -> Typed({Mime}, {"text"})
       [] n = "META:url" -> Typed({String}, {"url", "empty"})
       [] n = "be:originator-data" -> Typed({Other}, {"url", "empty"})
       [] n = "refs" -> Typed({Other}, {"files", "bookmark", "missing"})
       [] n = "image/bitmap" -> Typed({Other}, {"image", "junk"})

AllHaikuData ==
  Combinations({Plain, "text/html", Utf8, UriList, Png, "META:url", "be:originator-data", "refs", "image/bitmap"},
               Fields)

\* The conversions keep all data, whatever is offered.  They depend on no variable, so one
\* state is enough to evaluate them in: the first (HaikuDataDeviceManager.cpp:199-373, 472-697).
DataFormatsHold ==
  clipboard = None /\ (\A x \in Devices \cup Sources : life[x] = "new") => DataAreKept
=============================================================================
