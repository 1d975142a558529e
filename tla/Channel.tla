------------------------------ MODULE Channel ------------------------------
(* What a release channel of the registry promises its subscribers: a list   *)
(* of tags, the first of which leads. The leading tag only moves to an image  *)
(* at least as new as the one it names, the tags behind it only repeat what   *)
(* the tag before them names, and a missing leading tag is created again at   *)
(* most once. Refresh implements it for each profile.                         *)
EXTENDS Naturals

CONSTANTS
  Length,         \* how many tags the channel has
  Images,         \* the images a tag may name
  NoImage,        \* the tag does not exist
  Promoted,       \* images the protected promotion may put under the tag
  AtLeast(_, _)   \* AtLeast(new, old): new is no downgrade of old

VARIABLES
  pointer,        \* pointer[i]: the image tag i names
  recovered       \* the one creation of a missing leading tag is used up

channelVars == <<pointer, recovered>>

Init ==
  /\ pointer \in [1..Length -> Images \union {NoImage}]
  /\ \A i \in 2..Length : pointer[i] = NoImage
  /\ recovered \in BOOLEAN

Advance(image) ==
  /\ pointer[1] # NoImage
  /\ AtLeast(image, pointer[1])
  /\ pointer' = [pointer EXCEPT ![1] = image]
  /\ UNCHANGED recovered

Recover(image) ==
  /\ pointer[1] = NoImage
  /\ ~recovered
  /\ pointer' = [pointer EXCEPT ![1] = image]
  /\ recovered' = TRUE

Follow(i) ==
  /\ pointer[i - 1] # NoImage
  /\ pointer' = [pointer EXCEPT ![i] = pointer[i - 1]]
  /\ UNCHANGED recovered

(* Outside the promise: somebody deletes a tag, the protected promotion       *)
(* chooses an image, the chance to recover is lost.                           *)
Remove(i) == pointer' = [pointer EXCEPT ![i] = NoImage] /\ UNCHANGED recovered
Promote(image) == pointer' = [pointer EXCEPT ![1] = image] /\ UNCHANGED recovered
Forfeit == recovered' = TRUE /\ UNCHANGED pointer

Next ==
  \/ \E image \in Images : Advance(image) \/ Recover(image)
  \/ \E i \in 2..Length : Follow(i)
  \/ \E i \in 1..Length : Remove(i)
  \/ \E image \in Promoted : Promote(image)
  \/ Forfeit

Spec == Init /\ [][Next]_channelVars

=============================================================================
