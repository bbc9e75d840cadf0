---------------------------- MODULE AddressSpace ----------------------------
(***************************************************************************)
(* What remap_page promises, without page tables: while one page is being  *)
(* remapped, every other page keeps its frame and loses no right; and the  *)
(* page asked for gets the frame and the rights asked for in one step, or  *)
(* the request is dropped and it keeps its own.                            *)
(***************************************************************************)
CONSTANTS Page, Unmapped, NoRequest

VARIABLES
  translation,  \* page -> [frame, writable, user, executable] or Unmapped
  wanted        \* NoRequest, or [page, target]

spaceVars == <<translation, wanted>>

(* now may do all that before could, on the same frame.                    *)
AtLeast(before, now) ==
  IF before = Unmapped THEN now = Unmapped
  ELSE /\ now # Unmapped
       /\ now.frame = before.frame
       /\ before.writable => now.writable
       /\ before.user => now.user
       /\ before.executable => now.executable

NoneLoses(pages) == \A p \in pages : AtLeast(translation[p], translation'[p])

SpaceInit == wanted = NoRequest

Ask ==
  /\ wanted = NoRequest /\ wanted' # NoRequest
  /\ UNCHANGED translation

(* Rights that upper levels of the tables withheld are given.              *)
Widen ==
  /\ wanted # NoRequest
  /\ NoneLoses(Page)
  /\ UNCHANGED wanted

Grant ==
  /\ wanted # NoRequest
  /\ translation'[wanted.page] = wanted.target
  /\ \A p \in Page \ {wanted.page} : translation'[p] = translation[p]
  /\ UNCHANGED wanted

Answer ==
  /\ wanted # NoRequest /\ wanted' = NoRequest
  /\ UNCHANGED translation

SpaceNext == Ask \/ Widen \/ Grant \/ Answer

SpaceSpec == SpaceInit /\ [][SpaceNext]_spaceVars
=============================================================================
