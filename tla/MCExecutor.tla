----------------------------- MODULE MCExecutor -----------------------------
(* The two ways in which the executor serves requests, each run by itself: *)
(* over HTTP, and in turns over WebSocket.  The way is chosen at the       *)
(* start, and the other stays as it was then.                              *)
EXTENDS MCDispatch, ResponsesSocket

VARIABLE way

By(w) == way = w

ExecutorInit ==
  /\ way \in {"http", "websocket"}
  /\ Init /\ (By("http") \/ \A p \in Providers : maxConcurrency[p] = 1)
  /\ SocketInit

ExecutorVars == <<vars, socketVars, way>>

ExecutorNext ==
  /\ \/ By("http") /\ Next /\ UNCHANGED socketVars
     \/ By("websocket") /\ SocketNext /\ UNCHANGED vars
  /\ UNCHANGED way

(* The fairness of the two modules, each for its way. *)
ExecutorFairness ==
  /\ \A r \in Requests : WF_vars(By("http") /\ Serve(r))
  /\ \A c \in Conns : WF_socketVars(By("websocket") /\ Serving(c))

ExecutorSpec == ExecutorInit /\ [][ExecutorNext]_ExecutorVars /\ ExecutorFairness
=============================================================================
