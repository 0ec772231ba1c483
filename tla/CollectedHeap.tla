---------------------------- MODULE CollectedHeap ----------------------------
(***************************************************************************)
(* What smart_pointer promises (P1/smart_pointer.h): pointers that can be  *)
(* copied and assigned, and objects that are gone with the last pointer to *)
(* them.  No counts: every step leaves exactly the objects that the        *)
(* pointers reach.  The promise has one gap: an assignment whose source    *)
(* lies in what it releases may end in anything.                           *)
(***************************************************************************)
EXTENDS Naturals, FiniteSets, Functions

CONSTANTS
  Objects,      \* addresses of reference counted objects
  Slots,        \* smart_pointers outside objects: locals, temporaries, map entries
  NumMembers,   \* smart_pointers every object has as members
  Null          \* the null pointer

VARIABLES
  node,     \* object -> its members, for the objects that exist
  ptr,      \* slot -> where it points, for the slots in scope
  broken    \* the gap has been used

Members == 1 .. NumMembers

\* The objects of m that the pointers R reach: the least set with them that
\* is closed under members.
Targets(m, S) == UNION {Range(m[o]) : o \in S \cap DOMAIN m}
Reached(m, R) ==
  LET Closed(S) == Targets(m, S) \subseteq S \cup {Null}
  IN {o \in DOMAIN m : \A S \in SUBSET DOMAIN m : R \cap DOMAIN m \subseteq S /\ Closed(S) => o \in S}

\* The pointers are p from now on: what nothing reaches any more is gone.
Become(m, p) == ptr' = p /\ node' = Restrict(m, Reached(m, Range(p))) /\ UNCHANGED broken

With(m, k, x) == [i \in DOMAIN m \cup {k} |-> IF i = k THEN x ELSE m[i]]
Others(s) == Restrict(ptr, DOMAIN ptr \ {s})

Empty == <<>>
Init == node = Empty /\ ptr = Empty /\ broken = FALSE

Create(s) ==
  /\ s \notin DOMAIN ptr
  /\ \E o \in Objects \ DOMAIN node : \E ms \in [Members -> Range(ptr) \cup {Null}] :
       Become(With(node, o, ms), With(ptr, s, o))
Copy(s)  == \E o \in Range(ptr) \cup {Null} : Become(node, With(ptr, s, o))
Leave(s) == s \in DOMAIN ptr /\ Become(node, Others(s))

\* A copy of a member of an object: kept by other pointers than s, or not.
CopyMember(s) ==
  \E from \in DOMAIN node :
    /\ s \in DOMAIN ptr => from \in Reached(node, Range(Others(s)))
    /\ \E o \in Range(node[from]) : Become(node, With(ptr, s, o))
Break(s) ==
  /\ s \in DOMAIN ptr
  /\ Reached(node, Range(Others(s))) # DOMAIN node
  /\ node' = Empty /\ ptr' = Empty /\ broken' = TRUE

Next == /\ ~broken
        /\ \E s \in Slots : Create(s) \/ Copy(s) \/ CopyMember(s) \/ Leave(s) \/ Break(s)
Spec == Init /\ [][Next]_<<node, ptr, broken>>
=============================================================================
