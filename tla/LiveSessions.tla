---------------------------- MODULE LiveSessions ----------------------------
(***************************************************************************)
(* Live and one-shot transcription in the server: HTTP requests that open,  *)
(* feed and delete a live session, the timer that expires it, and Close,    *)
(* over a cache that keeps one Voxtral model and replaces it when another    *)
(* file is asked for.  A model counts one session at a time and, once       *)
(* closed, keeps its weights mapped until that session is closed too.       *)
(*                                                                          *)
(* A session's id is never used again; the model reuses its slot when no    *)
(* goroutine knows it any more.                                             *)
(***************************************************************************)
EXTENDS Naturals, FiniteSets

CONSTANTS
    Clients,        \* goroutines serving audio requests
    Sessions,       \* bound: realtimeAudioSessions some goroutine still knows
    Models,         \* bound: VoxtralModels some goroutine still knows
    Paths,          \* the model files asked for
    MaxConcurrent,  \* capacity of audioAdmissionSem
    None            \* no session, no model, no path, nobody

VARIABLES
    batch,          \* GOPHERLLM_VOXTRAL_REALTIME_BATCH is set
    sem,            \* the requests that hold a slot of audioAdmissionSem
    active,         \* the token of the one live session is taken
    session,        \* realtimeAudioSession: where, lock, closed, busy, fresh, timer, model
    model,          \* VoxtralModel: path, mapped, active, closed
    cached,         \* voxtralModelCache.model
    serviceClosed,  \* the routes' closed flag
    closer,         \* Handler.Close: pc
    client          \* each request: pc, path, session, model, over

vars == <<batch, sem, active, session, model, cached, serviceClosed, closer, client>>
cacheVars == <<model, cached>>
closing == <<serviceClosed, closer>>

NoSession == [where |-> "none", lock |-> None, closed |-> FALSE, busy |-> FALSE,
              fresh |-> FALSE, timer |-> "off", model |-> None]
NoModel   == [path |-> None, mapped |-> FALSE, active |-> FALSE, closed |-> FALSE]
Idle      == [pc |-> "idle", path |-> None, session |-> None, model |-> None, over |-> FALSE]

Init ==
    /\ batch \in BOOLEAN
    /\ sem = {} /\ active = FALSE
    /\ session = [s \in Sessions |-> NoSession]
    /\ model = [m \in Models |-> NoModel]
    /\ cached = None
    /\ serviceClosed = FALSE /\ closer = "idle"
    /\ client = [c \in Clients |-> Idle]

At(c, pc) == client[c].pc = pc
Goto(c, pc) == client' = [client EXCEPT ![c].pc = pc]
\* The handler returns; its deferred calls give the slot back.
Return(c) == client' = [client EXCEPT ![c] = Idle] /\ sem' = sem \ {c}

-----------------------------------------------------------------------------
(* VoxtralModel and voxtralModelCache.                                      *)

\* Defect: Close unmaps at once.
ClosedAtOnce(m) == [m EXCEPT !.closed = TRUE, !.mapped = FALSE]

\* Close: the weights stay while a session is active.
ClosedModel(m) == [m EXCEPT !.closed = TRUE, !.mapped = m.active]

\* releaseSession: the last one out unmaps a closed model.
Released(m) == [m EXCEPT !.active = FALSE, !.mapped = ~m.closed]

Reservable(m) == ~model[m].closed /\ ~model[m].active

Known(m) == \/ m = cached \/ model[m].mapped
            \/ \E c \in Clients : client[c].model = m
            \/ \E s \in Sessions : session[s].where # "none" /\ session[s].model = m

\* open, whole under the cache's mutex: the cached model, or close the stale one and
\* load the file, which may fail.
Open(c, next) ==
    LET path == client[c].path
        stale == IF cached = None THEN model ELSE [model EXCEPT ![cached] = ClosedModel(@)]
    IN  IF cached # None /\ model[cached].path = path
        THEN /\ client' = [client EXCEPT ![c].pc = next, ![c].model = cached]
             /\ UNCHANGED <<cacheVars, sem, active>>
        ELSE \/ \E m \in Models :
                  /\ ~Known(m)
                  /\ model' = [stale EXCEPT ![m] = [NoModel EXCEPT !.path = path, !.mapped = TRUE]]
                  /\ cached' = m
                  /\ client' = [client EXCEPT ![c].pc = next, ![c].model = m]
                  /\ UNCHANGED <<sem, active>>
             \/ /\ model' = stale /\ cached' = None
                /\ Return(c)
                /\ active' = (active /\ next # "reserve")

-----------------------------------------------------------------------------
(* POST /v1/audio/realtime/sessions                                         *)

Create(c, path) ==
    /\ At(c, "idle") /\ ~active
    /\ active' = TRUE
    /\ client' = [client EXCEPT ![c].pc = "createsem", ![c].path = path]
    /\ UNCHANGED <<batch, sem, session, cacheVars, closing>>

\* The token goes back on every return that does not register the session.
Abandon(c) == Return(c) /\ active' = FALSE

CreateWait(c) ==
    /\ At(c, "createsem") /\ Cardinality(sem) < MaxConcurrent
    /\ sem' = sem \cup {c} /\ Goto(c, "open")
    /\ UNCHANGED <<batch, active, session, cacheVars, closing>>

CreateGiveUp(c) ==
    /\ At(c, "createsem") /\ Abandon(c)
    /\ UNCHANGED <<batch, session, cacheVars, closing>>

CreateOpen(c) ==
    /\ At(c, "open") /\ Open(c, "reserve")
    /\ UNCHANGED <<batch, session, closing>>

\* NewSession reserves the model and warms it up; the batch adapter only keeps the model.
Reserve(c) ==
    LET m == client[c].model
    IN  /\ At(c, "reserve")
        /\ IF batch THEN Goto(c, "register") /\ UNCHANGED <<sem, active, model>>
           ELSE IF Reservable(m)
           THEN Goto(c, "warm") /\ model' = [model EXCEPT ![m].active = TRUE] /\ UNCHANGED <<sem, active>>
           ELSE Abandon(c) /\ UNCHANGED model
        /\ UNCHANGED <<batch, session, cached, closing>>

\* Transcriber.Close; a batch transcriber owns nothing.
Dismissed(m) == IF batch THEN model ELSE [model EXCEPT ![m] = Released(@)]

Warm(c) ==
    /\ At(c, "warm")
    /\ \/ Goto(c, "register") /\ UNCHANGED <<sem, active, model>>
       \/ Abandon(c) /\ model' = Dismissed(client[c].model)
    /\ UNCHANGED <<batch, session, cached, closing>>

\* The session enters the map with its timer, unless the client has gone away or the
\* service was closed meanwhile.
Register(c) ==
    /\ At(c, "register") /\ ~serviceClosed
    /\ \E s \in Sessions :
         /\ session[s].where = "none" /\ session[s].timer = "off"
         /\ \A d \in Clients : client[d].session # s
         /\ session' = [session EXCEPT ![s] = [NoSession EXCEPT !.where = "map", !.timer = "armed",
                                                                !.model = client[c].model]]
    /\ Return(c)
    /\ UNCHANGED <<batch, active, cacheVars, closing>>

RegisterFails(c) ==
    /\ At(c, "register")
    /\ Abandon(c) /\ model' = Dismissed(client[c].model)
    /\ UNCHANGED <<batch, session, cached, closing>>

-----------------------------------------------------------------------------
(* POST .../sessions/{id}: lookup under mu, a slot, the session's own mutex. *)

Push(c, s) ==
    /\ At(c, "idle") /\ session[s].where = "map"
    /\ client' = [client EXCEPT ![c].pc = "pushsem", ![c].session = s]
    /\ UNCHANGED <<batch, sem, active, session, cacheVars, closing>>

PushWait(c) ==
    /\ At(c, "pushsem") /\ Cardinality(sem) < MaxConcurrent
    /\ sem' = sem \cup {c} /\ Goto(c, "lock")
    /\ UNCHANGED <<batch, active, session, cacheVars, closing>>

PushGiveUp(c) ==
    /\ At(c, "pushsem") /\ Return(c)
    /\ UNCHANGED <<batch, active, session, cacheVars, closing>>

Lock(c) ==
    LET s == client[c].session
    IN  /\ At(c, "lock") /\ session[s].lock = None
        /\ IF session[s].closed THEN Return(c) /\ UNCHANGED session
           ELSE /\ session' = [session EXCEPT ![s].lock = c]
                /\ Goto(c, "begin") /\ UNCHANGED sem
        /\ UNCHANGED <<batch, active, cacheVars, closing>>

\* busy and lastUsed are set under mu.  The batch adapter transcribes what it has from
\* time to time, for which it must reserve the model; failing to do so is an error.
Begin(c) ==
    LET s == client[c].session
        m == session[s].model
    IN  /\ At(c, "begin")
        /\ session' = [session EXCEPT ![s].busy = TRUE, ![s].fresh = TRUE]
        /\ \/ ~batch /\ Goto(c, "push") /\ UNCHANGED model
           \/ batch /\ Reservable(m) /\ Goto(c, "push") /\ model' = [model EXCEPT ![m].active = TRUE]
           \/ /\ batch /\ UNCHANGED model
              /\ \E over \in IF Reservable(m) THEN {FALSE} ELSE BOOLEAN :
                   client' = [client EXCEPT ![c].pc = "end", ![c].over = over]
        /\ UNCHANGED <<batch, sem, active, cached, closing>>

\* Inference ends with text, with an error or because the session was cancelled.
Infer(c) ==
    /\ At(c, "push")
    /\ \E over \in BOOLEAN : client' = [client EXCEPT ![c].pc = "end", ![c].over = over]
    /\ model' = IF batch THEN [model EXCEPT ![session[client[c].session].model] = Released(@)] ELSE model
    /\ UNCHANGED <<batch, sem, active, session, cached, closing>>

\* After a final chunk or an error the session is closed and will be removed.
End(c) ==
    LET s == client[c].session
    IN  /\ At(c, "end")
        /\ session' = [session EXCEPT ![s].closed = @ \/ client[c].over, ![s].busy = FALSE,
                                      ![s].fresh = TRUE, ![s].lock = None]
        /\ IF client[c].over THEN Goto(c, "remove") /\ UNCHANGED sem ELSE Return(c)
        /\ UNCHANGED <<batch, active, cacheVars, closing>>

-----------------------------------------------------------------------------
(* Removing a session: a push after its end, DELETE, or the timer.          *)

Delete(c, s) ==
    /\ At(c, "idle") /\ session[s].where = "map"
    /\ client' = [client EXCEPT ![c].pc = "remove", ![c].session = s]
    /\ UNCHANGED <<batch, sem, active, session, cacheVars, closing>>

\* detach: out of the map and the timer stopped, unless that is running already.
Detached(s, to) == [session[s] EXCEPT !.where = to, !.timer = IF @ = "armed" THEN "off" ELSE @]

\* Defect: the session is looked up but left in the map until it is closed.
RemoveLater(c) ==
    LET s == client[c].session
    IN  /\ At(c, "remove")
        /\ IF session[s].where = "map" THEN Goto(c, "close") /\ UNCHANGED sem ELSE Return(c)
        /\ UNCHANGED <<batch, active, session, cacheVars, closing>>

Remove(c) ==
    LET s == client[c].session
    IN  /\ At(c, "remove")
        /\ IF session[s].where = "map"
           THEN session' = [session EXCEPT ![s] = Detached(s, "removed")] /\ Goto(c, "close") /\ UNCHANGED sem
           ELSE Return(c) /\ UNCHANGED session
        /\ UNCHANGED <<batch, active, cacheVars, closing>>

\* closeSession, under the session's mutex.
CloseSession(s) ==
    /\ session[s].lock = None
    /\ session' = [session EXCEPT ![s].closed = TRUE, ![s].where = "none", ![s].timer = "off"]
    /\ model' = Dismissed(session[s].model)
    /\ active' = FALSE

Close(c) ==
    /\ At(c, "close") /\ CloseSession(client[c].session)
    /\ Return(c)
    /\ UNCHANGED <<batch, cached, closing>>

\* The timer has a TTL; it fires when the session was not used for that long or is
\* still in use, or was used since.
Fire(s) ==
    /\ session[s].timer = "armed"
    /\ session' = [session EXCEPT ![s].timer = "fired"]
    /\ UNCHANGED <<batch, sem, active, cacheVars, closing, client>>

Expire(s) ==
    /\ session[s].timer = "fired"
    /\ session' =
         [session EXCEPT ![s] =
            IF @.where # "map" THEN [@ EXCEPT !.timer = "off"]
            ELSE IF @.busy \/ @.fresh THEN [@ EXCEPT !.timer = "armed", !.fresh = FALSE]
            ELSE [@ EXCEPT !.where = "expired", !.timer = "closing"]]
    /\ UNCHANGED <<batch, sem, active, cacheVars, closing, client>>

ExpireClose(s) ==
    /\ session[s].timer = "closing" /\ CloseSession(s)
    /\ UNCHANGED <<batch, sem, cached, closing, client>>

-----------------------------------------------------------------------------
(* POST /v1/audio/transcriptions, one at a time.                            *)

Transcribe(c, path) ==
    /\ At(c, "idle") /\ Cardinality(sem) < MaxConcurrent
    /\ \A d \in Clients : client[d].pc \notin {"topen", "treserve", "decode"}
    /\ sem' = sem \cup {c}
    /\ client' = [client EXCEPT ![c].pc = "topen", ![c].path = path]
    /\ UNCHANGED <<batch, active, session, cacheVars, closing>>

TranscribeOpen(c) ==
    /\ At(c, "topen") /\ Open(c, "treserve")
    /\ UNCHANGED <<batch, session, closing>>

\* A live session on the same model, or a model closed since, is an error.
TranscribeReserve(c) ==
    LET m == client[c].model
    IN  /\ At(c, "treserve")
        /\ IF Reservable(m)
           THEN Goto(c, "decode") /\ model' = [model EXCEPT ![m].active = TRUE] /\ UNCHANGED sem
           ELSE Return(c) /\ UNCHANGED model
        /\ UNCHANGED <<batch, active, session, cached, closing>>

Decode(c) ==
    /\ At(c, "decode")
    /\ model' = [model EXCEPT ![client[c].model] = Released(@)]
    /\ Return(c)
    /\ UNCHANGED <<batch, active, session, cached, closing>>

-----------------------------------------------------------------------------
(* Handler.Close: the routes' close function, then the cache.               *)

BeginClose ==
    /\ closer = "idle"
    /\ closer' = "sessions" /\ serviceClosed' = TRUE
    /\ session' = [s \in Sessions |-> IF session[s].where = "map" THEN Detached(s, "closed") ELSE session[s]]
    /\ UNCHANGED <<batch, sem, active, cacheVars, client>>

CloseOne(s) ==
    /\ closer = "sessions" /\ session[s].where = "closed" /\ CloseSession(s)
    /\ UNCHANGED <<batch, sem, cached, closing, client>>

CloseAll ==
    /\ closer = "sessions" /\ \A s \in Sessions : session[s].where # "closed"
    /\ model' = IF cached = None THEN model ELSE [model EXCEPT ![cached] = ClosedModel(@)]
    /\ cached' = None
    /\ closer' = "done"
    /\ UNCHANGED <<batch, sem, active, session, serviceClosed, client>>

-----------------------------------------------------------------------------
Arrive(c) ==
    \/ \E path \in Paths : Create(c, path) \/ Transcribe(c, path)
    \/ \E s \in Sessions : Push(c, s) \/ Delete(c, s)

Work(c) ==
    \/ CreateWait(c) \/ CreateGiveUp(c) \/ CreateOpen(c) \/ Reserve(c) \/ Warm(c) \/ Register(c) \/ RegisterFails(c)
    \/ PushWait(c) \/ PushGiveUp(c) \/ Lock(c) \/ Begin(c) \/ Infer(c) \/ End(c)
    \/ Remove(c) \/ Close(c) \/ TranscribeOpen(c) \/ TranscribeReserve(c) \/ Decode(c)

Next ==
    \/ \E c \in Clients : Arrive(c) \/ Work(c)
    \/ \E s \in Sessions : Fire(s) \/ Expire(s) \/ ExpireClose(s) \/ CloseOne(s)
    \/ BeginClose \/ CloseAll

Spec == Init /\ [][Next]_vars

-----------------------------------------------------------------------------
Creating(c) == client[c].pc \in {"createsem", "open", "reserve", "warm", "register"}
Present(s)  == session[s].where # "none"

\* The one token is held by a request that creates a session or by one session,
\* registered or on its way out: it is given back once, by whichever of push, DELETE,
\* timer and Close removes the session ("a live Voxtral model is large").
TokenExact ==
    Cardinality({c \in Clients : Creating(c)}) + Cardinality({s \in Sessions : Present(s)})
        = IF active THEN 1 ELSE 0

\* A model has at most one session, which is the one its active flag stands for; while
\* that session lives its weights stay mapped, whatever evicts or closes the model
\* ("an already active session remains usable and keeps weights mapped until its
\* Close"), and afterwards only the cached model is kept.
ModelOwned ==
    \A m \in Models :
        LET users == {c \in Clients : \/ client[c].pc \in {"warm", "decode"} /\ client[c].model = m
                                      \/ ~batch /\ At(c, "register") /\ client[c].model = m
                                      \/ batch /\ At(c, "push") /\ session[client[c].session].model = m}
            sessions == {s \in Sessions : ~batch /\ Present(s) /\ session[s].model = m}
        IN  /\ Cardinality(users) + Cardinality(sessions) = IF model[m].active THEN 1 ELSE 0
            /\ model[m].mapped <=> model[m].active \/ m = cached
            /\ m = cached => ~model[m].closed
            /\ \A c \in Clients : At(c, "push") /\ session[client[c].session].model = m => model[m].active

\* A registered session can always end without anybody asking: its timer is set or about
\* to look at it, also while a push is running ("busy") and after one ended it.
ExpiryPending ==
    \A s \in Sessions : session[s].where = "map" => session[s].timer \in {"armed", "fired"}

\* The token and the timers after any mix of requests, failures, expiry and Close.
SessionsTracked == TokenExact /\ ExpiryPending
=============================================================================
