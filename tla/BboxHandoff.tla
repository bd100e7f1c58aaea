----------------------------- MODULE BboxHandoff -----------------------------
(***************************************************************************)
(* What the shared bounding-box buffer promises (spec 5): the frame thread *)
(* finishes a detection pass, the pass's selection is published as a     *)
(* whole, and the encode thread embeds the most recently published        *)
(* selection; no reader ever sees part of a pass.                          *)
(***************************************************************************)
CONSTANT Selections          \* the selections a detection pass can yield

VARIABLES pending,           \* the selection of the last finished pass
          published,         \* the selection a reader would get now
          embedded           \* the selection in the last encoded header

vars == << pending, published, embedded >>

Init ==
    /\ pending = << >>
    /\ published = << >>
    /\ embedded = << >>

\* A detection pass ends with a selection; nothing is published yet.
Detect ==
    /\ \E s \in Selections : pending' = s
    /\ UNCHANGED << published, embedded >>

\* The whole selection of the last pass replaces the published one.
Publish ==
    /\ published' = pending
    /\ UNCHANGED << pending, embedded >>

\* The encoder embeds what is published.
Embed ==
    /\ embedded' = published
    /\ UNCHANGED << pending, published >>

Next == Detect \/ Publish \/ Embed

Spec == Init /\ [][Next]_vars

====
