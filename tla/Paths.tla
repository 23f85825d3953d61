-------------------------------- MODULE Paths --------------------------------
(***************************************************************************)
(* Paths as sequences of characters, for the configuration that writes     *)
(* them down and the requests that follow them.                            *)
(***************************************************************************)
EXTENDS Integers, SequencesExt, FiniteSetsExt

Slash  == "/"
Dot    == "."
Root   == <<Slash>>
Absent == <<>>     \* the empty string, where it says that there is no path

(* The joinPath of HandlerResolver, UploadHandler and RuntimeLocation.     *)
JoinPath(a, b) ==
    IF a = <<>> THEN b
    ELSE IF b = <<>> THEN a
    ELSE IF Last(a) = Slash /\ Head(b) = Slash THEN a \o Tail(b)
    ELSE IF Last(a) # Slash /\ Head(b) # Slash THEN a \o Root \o b
    ELSE a \o b

(* A map with one more entry, or another value for an old one.             *)
With(map, key, value) ==
    [k \in DOMAIN map \union {key} |-> IF k = key THEN value ELSE map[k]]
=============================================================================
