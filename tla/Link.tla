-------------------------------- MODULE Link --------------------------------
(***************************************************************************)
(* The connection as the code above nats/INatsConnection.h sees it, and    *)
(* what agents/AppController makes of its signals: the label under the     *)
(* roster, which is also the guard of Refresh, of re-discovery and of      *)
(* sending a prompt.                                                       *)
(*                                                                         *)
(* `link` is NatsClient's `nc` seen from above: "dialing" until TCP is up, *)
(* "greeting" until CONNECT is sent. The module is the base of the models  *)
(* of the upper layers, which conjoin what else each signal sets off.      *)
(***************************************************************************)
VARIABLES link,    \* the transport below the seam
          label    \* m_connectionState

linkVars == <<link, label>>
------------------------------------------------------------------------------
LinkInit == link = "down" /\ label = "disconnected"

(* abort() on a connected socket emits disconnected() before the new dial. *)
AbortEmits == link \in {"greeting", "up"}

(* connectToServer(): the label says "connecting" first, but over a live   *)
(* connection the disconnected() slot runs next and overwrites it.         *)
ConnectToServer ==
  /\ link' = "dialing"
  /\ label' = IF AbortEmits THEN "disconnected" ELSE "connecting"

TcpConnected ==
  /\ link = "dialing" /\ link' = "greeting"
  /\ UNCHANGED label

DialFailed ==
  /\ link = "dialing" /\ link' = "down"
  /\ label' = "disconnected"

(* The connected() and disconnected() slots.                               *)
Connected ==
  /\ link = "greeting" /\ link' = "up"
  /\ label' = "connected"

Disconnected ==
  /\ AbortEmits /\ link' = "down"
  /\ label' = "disconnected"

(* A -ERR line on a connection that stays: errorOccurred() alone.          *)
ServerError ==
  /\ link \in {"greeting", "up"} /\ UNCHANGED link
  /\ label' = "disconnected"

LinkTypeOK ==
  /\ link \in {"down", "dialing", "greeting", "up"}
  /\ label \in {"disconnected", "connecting", "connected"}
=============================================================================
