----------------------------- MODULE MCDelivery -----------------------------
(***************************************************************************)
(* Instances of Delivery for TLC.  The catalogues say which events Core    *)
(* may publish, each as often as the length of the stream allows: the same *)
(* message again is a re-projection, message.created or message.updated.   *)
(***************************************************************************)
EXTENDS Delivery

CONSTANTS text,   \* a text message created after the floor
          old,    \* a text message created before the floor
          video,  \* a media message created after the floor
          echo    \* an outgoing message, echo of a send of this slave

Message(m, origins, statuses) ==
  [kind : {"message"}, msg : {m}, origin : origins, status : statuses]

Signal(kind, m) ==
  [kind |-> kind, msg |-> m, origin |-> "given", status |-> IF kind = "ready" THEN "ready" ELSE "none"]

TextCatalogue ==
  Message(text, {"missing"}, {"none"})
    \cup Message(old, {"missing"}, {"none"})
    \cup {Signal("other", old)}

MediaCatalogue ==
  Message(video, {"given"}, {"noref", "absent"})
    \cup Message(video, {"missing"}, {"ready", "broken"})
    \cup {Signal("ready", video), [Signal("ready", video) EXCEPT !.status = "thumbnail"]}

EchoCatalogue ==
  Message(echo, {"missing"}, {"none"})
    \cup Message(text, {"given"}, {"none"})
    \cup {Signal("send", echo), Signal("removed", text)}

WakeCatalogue ==
  Message(video, {"given"}, {"absent"}) \cup {Signal("ready", video)}

LiveCatalogue ==
  Message(text, {"given"}, {"none"})
    \cup WakeCatalogue
=============================================================================
