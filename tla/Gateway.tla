------------------------------ MODULE Gateway -------------------------------
(***************************************************************************)
(* internal/server/openai.go over the supervisor: a request of the OpenAI  *)
(* API is given an instance out of one List, and dialled to the port that  *)
(* this snapshot names some time later, under no lock, while loads,        *)
(* unloads and crashes go on.                                              *)
(***************************************************************************)
EXTENDS Supervisor

CONSTANTS
    Requests,   \* requests made of the proxy
    Names,      \* model names
    NameOf,     \* name of each model of the registry
    Unknown     \* what a request may ask for that no model is called

ASSUME GatewayAssumption ==
    /\ NameOf \in [Models -> Names]
    /\ Unknown \notin Models \cup Names \cup {"loaded"}
    /\ "loaded" \notin Models \cup Names

VARIABLES
    startedAt,   \* Instance.StartedAt, as the rank of the Insert that set it
    request      \* what became of each request

gateVars == <<startedAt, request>>

Wants  == Models \cup Names \cup {"loaded", Unknown}
NoCall == [pc |-> "idle", inst |-> None, port |-> 0, by |-> None, code |-> 0]

GatewayTypeOK ==
    /\ startedAt \in [Loads -> Nat]
    /\ request \in [Requests -> [pc : {"idle", "dial", "done"}, inst : Loads \cup {None},
                                 port : Int, by : Loads \cup {None},
                                 code : {0, 200, 404, 409, 502}]]

GatewayInit ==
    /\ Init
    /\ startedAt = [l \in Loads |-> 0]
    /\ request = [r \in Requests |-> NoCall]

-----------------------------------------------------------------------------
(* The supervisor goes on; the instance that Load inserts is given the time.*)

Inserted(l) == loadPc[l] = "insert" /\ loadPc'[l] = "start"

SupervisorStep ==
    /\ Next
    /\ startedAt' = [l \in Loads |->
          IF Inserted(l) THEN Cardinality({k \in Loads : startedAt[k] > 0}) + 1 ELSE startedAt[l]]
    /\ UNCHANGED request

-----------------------------------------------------------------------------
(* selectInstance, on one List.                                            *)

Listed == {k \in Loads : InMap(k)}
Ready  == {k \in Listed : status[k] = "ready"}

\* "loaded", or no model at all, is the ready instance that started last.
NewestReady == {k \in Ready : \A j \in Ready : startedAt[j] <= startedAt[k]}

\* An id or a name: the first that fits, in the order of a map.
Called(w) == {k \in Listed : loadModel[k] = w \/ NameOf[loadModel[k]] = w}

Registered(w) == \E m \in Models : m = w \/ NameOf[m] = w

Refuse(r, code) == request' = [request EXCEPT ![r] = [@ EXCEPT !.pc = "done", !.code = code]]
Choose(r, k)    == request' = [request EXCEPT ![r].pc = "dial", ![r].inst = k, ![r].port = port[k]]

AskLoaded(r) ==
    /\ request[r].pc = "idle"
    /\ \/ NewestReady = {} /\ Refuse(r, 409)
       \/ \E k \in NewestReady : Choose(r, k)
    /\ UNCHANGED <<vars, startedAt>>

AskModel(r, w) ==
    /\ request[r].pc = "idle"
    /\ \/ \E k \in Called(w) : status[k] = "ready" /\ Choose(r, k)
       \/ \E k \in Called(w) : status[k] # "ready" /\ Refuse(r, 409)
       \/ Called(w) = {} /\ Registered(w) /\ Refuse(r, 409)
       \/ Called(w) = {} /\ ~Registered(w) /\ Refuse(r, 404)
    /\ UNCHANGED <<vars, startedAt>>

\* The reverse proxy: whichever child holds the port answers, and nobody there
\* is a 502.
Dial(r) ==
    /\ request[r].pc = "dial"
    /\ \/ \E k \in Loads : /\ child[k] = "serving" /\ port[k] = request[r].port
                           /\ request' = [request EXCEPT ![r].pc = "done", ![r].by = k,
                                                         ![r].code = 200]
       \/ ~Bound(request[r].port) /\ Refuse(r, 502)
    /\ UNCHANGED <<vars, startedAt>>

-----------------------------------------------------------------------------
GatewayNext ==
    \/ SupervisorStep
    \/ \E r \in Requests : AskLoaded(r) \/ Dial(r) \/ \E w \in Wants \ {"loaded"} : AskModel(r, w)

GatewaySpec == GatewayInit /\ [][GatewayNext]_<<vars, gateVars>>

-----------------------------------------------------------------------------
(* Properties.                                                             *)

\* The proxy dials a port and not a process: with one load or unload at a time,
\* the server of another instance answers only a request whose own instance
\* is no longer listed (openai.go 72-81, 95-126).
AnsweredByChosen ==
    \A r \in Requests : request[r].by \notin {None, request[r].inst} => ~InMap(request[r].inst)

-----------------------------------------------------------------------------
(* Claims the code does not keep.                                          *)

\* The request names a model, and the answer is that model's ("forwards an
\* OpenAI-style request to the loaded model's llama-server", openai.go:39).
AnsweredByModel ==
    \A r \in Requests : request[r].by # None
                           => loadModel[request[r].by] = loadModel[request[r].inst]

\* An upstream error means that the server it was chosen for has exited.
ErrorIsCrash ==
    [][\A r \in Requests : request[r].pc = "dial" /\ request'[r].code = 502
                              => child[request[r].inst] = "exited"]_<<vars, gateVars>>

\* "model" may be the name of a loaded model (openai.go:40): it is not refused
\* while an instance of that name is ready.
ReadyIsServed ==
    [][\A r \in Requests, w \in Names :
          AskModel(r, w) /\ request'[r].code # 0 => Called(w) \cap Ready = {}]_<<vars, gateVars>>
=============================================================================
