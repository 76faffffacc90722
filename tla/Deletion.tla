------------------------------ MODULE Deletion ------------------------------
(***************************************************************************)
(* What Path::ForceDelete promises: it removes one name.  Files that have  *)
(* other names stay as they are, whether they are read-only or not.  Only  *)
(* if the file system refuses to set an attribute back, or the program is  *)
(* killed, may a file be found that is read-only no more.                  *)
(***************************************************************************)
CONSTANTS Names, Ids, None

VARIABLES
  link,       \* the file or directory of each name, or None
  readOnly,   \* those with FILE_ATTRIBUTE_READONLY
  reliable    \* can attributes always be set back?

Used(l) == {l[n] : n \in Names} \ {None}

Init == /\ link \in [Names -> Ids \union {None}]
        /\ readOnly \subseteq Used(link)
        /\ reliable \in BOOLEAN

Remove(n) ==
  /\ link[n] # None
  /\ link' = [link EXCEPT ![n] = None]
  /\ readOnly' = readOnly \intersect Used(link')
  /\ UNCHANGED reliable

Lose(id) ==
  /\ ~reliable
  /\ readOnly' = readOnly \ {id}
  /\ UNCHANGED <<link, reliable>>

Next == (\E n \in Names : Remove(n)) \/ (\E id \in Ids : Lose(id))

Spec == Init /\ [][Next]_<<link, readOnly, reliable>>
=============================================================================
