------------------------------ MODULE UserAvatar ------------------------------
(***************************************************************************)
(* The avatar of a user: an object in the store whose key is kept in the   *)
(* JSON column ext of the user.  An upload reads the row, writes the object *)
(* under a new key, overwrites ext and deletes the object that ext had     *)
(* named, without a transaction.  Uploads of several devices overlap, and  *)
(* a profile update overwrites ext with what its client sends.             *)
(***************************************************************************)

CONSTANTS
  Photo,    \* bound: uploads made in a behaviour, each of them once
  Builtin   \* an avatar the user has from the start

\* An ext without an avatar; no key looks like it.
NoAvatar == "none"
ASSUME AvatarBuiltin == Photo \cap {Builtin, NoAvatar} = {}

VARIABLES
  avatar,   \* the key in ext: that of the upload that made it, or NoAvatar
  picture,  \* the objects in the store
  photo,    \* the state of each upload
  shown,    \* history: the keys clients have seen in ext
  astray    \* history: an answer was lost or ext was overwritten with an old one

avatarVars == <<avatar, picture, photo, shown, astray>>

AvatarKey == Photo \cup {Builtin}

PhotoState == [step : {"new", "over", "undo"}]
              \cup [step : {"read", "uploaded", "saved"}, old : AvatarKey \cup {NoAvatar}]

PhotoAt(c, s) == photo[c].step = s
PhotoGoes(c, s) == photo' = [photo EXCEPT ![c].step = s]
PhotoStep(c, s) == photo' = [photo EXCEPT ![c] = [step |-> s]]

-----------------------------------------------------------------------------
\* FindByID: the row is read, with the key to delete afterwards.
AvatarRead(c) ==
  /\ PhotoAt(c, "new")
  /\ photo' = [photo EXCEPT ![c] = [step |-> "read", old |-> avatar]]
  /\ UNCHANGED <<avatar, picture, shown, astray>>

\* storage.Upload: an error may leave the object behind.
AvatarUpload(c) ==
  /\ PhotoAt(c, "read")
  /\ \/ picture' = picture \cup {c} /\ PhotoGoes(c, "uploaded")
     \/ picture' \in {picture, picture \cup {c}} /\ PhotoStep(c, "over")
  /\ UNCHANGED <<avatar, shown, astray>>

\* UpdateByID: ext is overwritten.  An error undoes the upload, also if the
\* row was written and only the answer was lost.
AvatarSave(c) ==
  /\ PhotoAt(c, "uploaded")
  /\ \/ avatar' = c /\ PhotoGoes(c, "saved") /\ shown' = shown \cup {c} /\ UNCHANGED astray
     \/ UNCHANGED <<avatar, shown, astray>> /\ PhotoStep(c, "undo")
     \/ avatar' = c /\ PhotoStep(c, "undo") /\ shown' = shown \cup {c} /\ astray' = TRUE
  /\ UNCHANGED picture

\* The object ext named before is deleted; an error is ignored.
AvatarCleanup(c) ==
  /\ PhotoAt(c, "saved")
  /\ picture' \in {picture, picture \ {photo[c].old}}
  /\ PhotoStep(c, "over")
  /\ UNCHANGED <<avatar, shown, astray>>

AvatarUndo(c) ==
  /\ PhotoAt(c, "undo")
  /\ picture' \in {picture, picture \ {c}}
  /\ PhotoStep(c, "over")
  /\ UNCHANGED <<avatar, shown, astray>>

\* The server dies during an upload.
AvatarCrash(c) ==
  /\ photo[c].step \notin {"new", "over"}
  /\ PhotoStep(c, "over")
  /\ UNCHANGED <<avatar, picture, shown, astray>>

\* A profile update with ext as its client has seen it at some time.
ProfileUpdate(k) ==
  /\ k \in shown
  /\ avatar' = k
  /\ astray' = (astray \/ k # avatar)
  /\ UNCHANGED <<picture, photo, shown>>

-----------------------------------------------------------------------------
AvatarStart ==
  /\ avatar \in {NoAvatar, Builtin}
  /\ picture = {avatar} \ {NoAvatar}
  /\ photo = [c \in Photo |-> [step |-> "new"]]
  /\ shown = {avatar}
  /\ astray = FALSE

AvatarNext ==
  \/ \E c \in Photo :
       \/ AvatarRead(c)
       \/ AvatarUpload(c)
       \/ AvatarSave(c)
       \/ AvatarCleanup(c)
       \/ AvatarUndo(c)
       \/ AvatarCrash(c)
  \/ \E k \in AvatarKey \cup {NoAvatar} : ProfileUpdate(k)

AvatarSpec == AvatarStart /\ [][AvatarNext]_avatarVars

-----------------------------------------------------------------------------
(* Properties. *)

AvatarTypeOK ==
  /\ avatar \in AvatarKey \cup {NoAvatar}
  /\ picture \subseteq AvatarKey
  /\ photo \in [Photo -> PhotoState]
  /\ shown \subseteq AvatarKey \cup {NoAvatar}
  /\ astray \in BOOLEAN

\* However uploads overlap, fail or are cut short by a crash, the object of
\* the avatar in force is in the store, unless the answer of the database was
\* lost or a client put an old ext back.
AvatarBacked == ~astray => avatar \in picture \cup {NoAvatar}
=============================================================================
