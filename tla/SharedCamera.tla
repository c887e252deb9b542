----------------------------- MODULE SharedCamera -----------------------------
(***************************************************************************)
(* What the server promises about its one camera: it is set up for the     *)
(* first client session, all sessions share it, and it is free again when  *)
(* the last one ends, whichever that is.  A DESCRIBE borrows it to look at *)
(* the video, when nobody has it.                                          *)
(***************************************************************************)
CONSTANTS
  Clients,
  CameraMayFail    \* can setting it up fail

VARIABLES
  users,           \* clients whose sessions share the stream
  viewers,         \* clients the stream is sent to
  camera           \* who has it: "nobody", the "stream", or a "describe"

vars == <<users, viewers, camera>>

Init == users = {} /\ viewers = {} /\ camera = "nobody"

\* Who has the camera when client c's session has ended.
CameraWithout(c) ==
  IF users \subseteq {c} /\ camera = "stream" THEN "nobody" ELSE camera

\* Who may have it when c begins, after what it had before has ended: only a
\* session that is alone can get it, and nobody's coming takes it away.
CameraWith(c) ==
  IF users \subseteq {c} /\ CameraWithout(c) = "nobody"
    THEN {"stream"} \cup (IF CameraMayFail THEN {"nobody"} ELSE {})
    ELSE {CameraWithout(c)}

Begin(c) ==
  /\ users' = users \cup {c}
  /\ viewers' = viewers \ {c}
  /\ camera' \in CameraWith(c)

View(c) ==
  /\ c \in users
  /\ viewers' = viewers \cup {c}
  /\ UNCHANGED <<users, camera>>

End(c) ==
  /\ users' = users \ {c}
  /\ viewers' = viewers \ {c}
  /\ camera' = CameraWithout(c)

\* The stream no longer reaches c, whose session goes on.
Lose(c) ==
  /\ viewers' = viewers \ {c}
  /\ UNCHANGED <<users, camera>>

BeginDescribe ==
  /\ camera = "nobody"
  /\ camera' = "describe"
  /\ UNCHANGED <<users, viewers>>

\* The client that asked may have gone meanwhile: its session ends with the
\* DESCRIBE, or goes on but is not reached any more.
EndDescribe(ending, lost) ==
  /\ camera = "describe"
  /\ camera' = "nobody"
  /\ users' = users \ ending
  /\ viewers' = viewers \ (ending \cup lost)

Next ==
  \/ \E c \in Clients : Begin(c) \/ View(c) \/ Lose(c) \/ End(c)
  \/ \E c \in Clients : EndDescribe({c}, {}) \/ EndDescribe({}, {c})
  \/ BeginDescribe \/ EndDescribe({}, {})

Spec == Init /\ [][Next]_vars

=============================================================================
