------------------------- MODULE PublishedReleases -------------------------
(***************************************************************************)
(* What the setups promise those who read their data, without files,       *)
(* steps or failures: the catalog lists releases from older to newer, and  *)
(* the copies the engines read are renewed one after the other, each       *)
(* being unusable for a while, from the latest release that is listed.  A  *)
(* release may have nothing for a copy, which then stays as it is.         *)
(***************************************************************************)
EXTENDS Integers

CONSTANTS
  Copies,  \* number of copies, in the order they are renewed
  None     \* a copy that is not usable

VARIABLES
  listed,  \* releases in the catalog
  copy,    \* the release each copy is of
  lacking  \* releases and copies the release has nothing for

vars == <<listed, copy, lacking>>

Earlier(q, r) == q.day < r.day \/ (q.day = r.day /\ q.version < r.version)

Latest(r) == r \in listed /\ \A q \in listed \ {r} : Earlier(q, r)

Init == listed = {} /\ copy = [i \in 1 .. Copies |-> None] /\ lacking = {}

\* One more release, later than all others, with whatever it lacks.
Publish ==
  /\ \E r \in listed' \ listed :
       /\ listed' = listed \cup {r}
       /\ \A q \in listed : Earlier(q, r)
       /\ \E none \in SUBSET (1 .. Copies) : lacking' = lacking \cup ({r} \X none)
  /\ UNCHANGED copy

\* The turn of a copy comes when those before it are of the latest release, or are passed
\* over because it has nothing for them.
Turn(i, r) ==
  /\ Latest(r)
  /\ <<r, i>> \notin lacking
  /\ \A j \in 1 .. (i - 1) : copy[j] = r \/ <<r, j>> \in lacking

Withdraw(i) ==
  /\ \E r \in listed : Turn(i, r)
  /\ copy' = [copy EXCEPT ![i] = None]
  /\ UNCHANGED <<listed, lacking>>

Deliver(i) ==
  /\ \E r \in listed : Turn(i, r) /\ copy' = [copy EXCEPT ![i] = r]
  /\ UNCHANGED <<listed, lacking>>

Next == Publish \/ \E i \in 1 .. Copies : Withdraw(i) \/ Deliver(i)

Spec == Init /\ [][Next]_vars

\* A usable copy is of a listed release, and no copy is newer than one that is renewed
\* before it, unless the newer release has nothing for that one: the sizes of a benchmark
\* are not from releases in the wrong order.
CopiesInOrder ==
  /\ \A i \in 1 .. Copies : copy[i] = None \/ copy[i] \in listed
  /\ \A i, j \in 1 .. Copies :
       i < j => \/ copy[i] = None \/ copy[j] = None \/ copy[i] = copy[j]
                \/ Earlier(copy[j], copy[i])
                \/ <<copy[j], i>> \in lacking
=============================================================================
