---------------------------- MODULE StoredImages ----------------------------
(***************************************************************************)
(* What the store of push thumbnails promises whoever reads it: a device   *)
(* is shown with an image announced for it to the account that is signed   *)
(* in, later announcements replace earlier ones and never the reverse, an  *)
(* image once shown stays until a later one replaces it, and a change of   *)
(* account forgets everything.                                             *)
(***************************************************************************)
EXTENDS Integers

CONSTANT Devices

VARIABLES
  account,    \* the how-manieth account
  announced,  \* how many images were announced for a device
  shown       \* the image a reader gets: its account and its number

vars == <<account, announced, shown>>

NoImage == <<>>

\* The number of the image shown, 0 if there is none.
Number(image) == IF image = NoImage THEN 0 ELSE image[2]

Init ==
  /\ account = 0
  /\ announced = [d \in Devices |-> 0]
  /\ shown = [d \in Devices |-> NoImage]

Announce(d) ==
  /\ announced' = [announced EXCEPT ![d] = @ + 1]
  /\ UNCHANGED <<account, shown>>

Show(d) ==
  /\ \E n \in Number(shown[d]) + 1 .. announced[d] :
       shown' = [shown EXCEPT ![d] = <<account, n>>]
  /\ UNCHANGED <<account, announced>>

Forget ==
  /\ account' = account + 1
  /\ announced' = [d \in Devices |-> 0]
  /\ shown' = [d \in Devices |-> NoImage]

Next == Forget \/ \E d \in Devices : Announce(d) \/ Show(d)

Spec == Init /\ [][Next]_vars
=============================================================================
