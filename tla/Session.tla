-------------------------------- MODULE Session --------------------------------
(***************************************************************************)
(* The life of sessions: core/controller.py StreamController and _Session  *)
(* with the calls of ui/bridge.py that start, stop and hand them over.     *)
(* Every bridge call runs on a thread of its own, every session has one,   *)
(* and they meet in the controller's current session, in the events and    *)
(* attributes of the session, and in the proxy that answers the player.    *)
(***************************************************************************)
EXTENDS Naturals, FiniteSets

CONSTANTS
    Sessions,       \* bound: the sessions a behaviour can start
    PlayCallers,    \* threads in bridge.play
    UserCallers,    \* threads in bridge.stop and bridge.play_with_vlc
    SlowSteps,      \* steps of _run that may outlast the 3 s and 25 s waits
    MaxCalls,       \* bound: bridge calls in a behaviour
    None

Callers == PlayCallers \cup UserCallers

(* A player is made by the session's thread or by a caller of the fallback. *)
Makers == {"run"} \cup UserCallers

(* The steps of _run that are under way, and the ones around them. *)
RunSteps == {"begin", "probe", "check", "build", "recheck", "choose", "branch",
             "player", "play", "ready", "monitor", "fail", "cleanup", "close",
             "release", "finish"}
SessionSteps == {"none", "installed", "ended"} \cup RunSteps

ASSUME SessionAssumption ==
    /\ IsFiniteSet(Sessions)
    /\ PlayCallers \cap UserCallers = {}
    /\ SlowSteps \subseteq RunSteps
    /\ MaxCalls \in Nat
    /\ None \notin Sessions \cup Makers \cup Callers
    /\ "run" \notin Callers

VARIABLES
    current,        \* StreamController._session
    handlerProxy,   \* _ProxyHandler.proxy, by the session that owns the proxy
    session,        \* per session, its thread's step and its attributes
    vlc,            \* per session and maker, the libvlc player it made
    caller,         \* per thread of the bridge, its step and its locals
    calls           \* calls so far

sessionVars == <<current, handlerProxy, session, vlc, caller, calls>>

NewSession == [pc |-> "none", stop |-> FALSE, ready |-> FALSE, done |-> FALSE,
               error |-> FALSE, mode |-> "vlc", proxy |-> "none", player |-> None]

(* s is the session the call works on, own the one a play has started. *)
Idle == [pc |-> "idle", op |-> "none", s |-> None, own |-> None, ok |-> FALSE]

SessionInit ==
    /\ current = None
    /\ handlerProxy = None
    /\ session = [s \in Sessions |-> NewSession]
    /\ vlc = [s \in Sessions |-> [m \in Makers |-> "none"]]
    /\ caller = [c \in Callers |-> Idle]
    /\ calls = 0

Unused == {s \in Sessions : session[s].pc = "none"}

-----------------------------------------------------------------------------
(* _run, the thread of session s.                                          *)

RunOnly == UNCHANGED <<current, handlerProxy, vlc, caller, calls>>

(* The step that just runs on, or leaves on a stop. *)
RunGoto(s, from, to) ==
    /\ session[s].pc = from
    /\ session' = [session EXCEPT ![s].pc = to]
    /\ RunOnly

Begin(s) == RunGoto(s, "begin", "probe")

(* probe answers or raises RemoteStreamError. *)
Probe(s) == \E to \in {"check", "fail"} : RunGoto(s, "probe", to)

(* Mutant: the test of the stop after the probe is gone. *)
CheckNothing(s) == RunGoto(s, "check", "build")

Check(s) == RunGoto(s, "check", IF session[s].stop THEN "cleanup" ELSE "build")

(* LocalProxy.__init__ takes over the handlers' proxy before it binds its  *)
(* port, which can fail.                                                   *)
Build(s) ==
    /\ session[s].pc = "build"
    /\ handlerProxy' = s
    /\ session' \in {[session EXCEPT ![s].pc = "recheck", ![s].proxy = "open"],
                     [session EXCEPT ![s].pc = "fail"]}
    /\ UNCHANGED <<current, vlc, caller, calls>>

Recheck(s) ==
    RunGoto(s, "recheck", IF session[s].stop THEN "cleanup" ELSE "choose")

(* The media's type decides the mode ... *)
Choose(s) ==
    /\ session[s].pc = "choose"
    /\ \E mode \in {"html5", "vlc"} :
           session' = [session EXCEPT ![s].pc = "branch", ![s].mode = mode]
    /\ RunOnly

(* ... which is read again, for a fallback may have changed it. *)
Branch(s) ==
    RunGoto(s, "branch", IF session[s].mode = "vlc" THEN "player" ELSE "ready")

MakePlayer(s) ==
    /\ session[s].pc = "player"
    /\ session' = [session EXCEPT ![s].pc = "play", ![s].player = "run"]
    /\ vlc' = [vlc EXCEPT ![s]["run"] = "silent"]
    /\ UNCHANGED <<current, handlerProxy, caller, calls>>

(* libvlc is missing or cannot be loaded. *)
NoPlayer(s) == RunGoto(s, "player", "fail")

(* What play makes of a player: it stops it, and plays or raises.          *)
Sounds == {"playing", "silent"}

(* The player played is the session's one at this moment. *)
Play(s) ==
    /\ session[s].pc = "play"
    /\ \E sound \in Sounds :
           /\ session' = [session EXCEPT
                  ![s].pc = IF sound = "playing" THEN "ready" ELSE "fail"]
           /\ vlc' = [vlc EXCEPT ![s][session[s].player] = sound]
    /\ UNCHANGED <<current, handlerProxy, caller, calls>>

Ready(s) ==
    /\ session[s].pc = "ready"
    /\ session' = [session EXCEPT ![s].pc = "monitor", ![s].ready = TRUE]
    /\ RunOnly

(* Mutant: a session that is stopped is only left once it has a player. *)
LeaveMonitorPlaying(s) ==
    /\ session[s].stop
    /\ session[s].player # None
    /\ RunGoto(s, "monitor", "cleanup")

LeaveMonitor(s) == session[s].stop /\ RunGoto(s, "monitor", "cleanup")

(* The monitor sees the player at the end of the media. *)
PlaybackEnded(s) ==
    /\ session[s].pc = "monitor"
    /\ session[s].player # None
    /\ vlc[s][session[s].player] = "playing"
    /\ session' = [session EXCEPT ![s].stop = TRUE]
    /\ RunOnly

Fail(s) ==
    /\ session[s].pc = "fail"
    /\ session' = [session EXCEPT ![s].pc = "cleanup", ![s].error = TRUE]
    /\ RunOnly

(* The finally releases whoever waits for the session, then cleans up. *)
Finally(s) ==
    /\ session[s].pc = "cleanup"
    /\ session' = [session EXCEPT ![s].pc = "close", ![s].ready = TRUE]
    /\ RunOnly

(* Mutant: the proxy is dropped instead of closed. *)
CloseProxyDropped(s) ==
    /\ session[s].pc = "close"
    /\ session' = [session EXCEPT ![s].pc = "release", ![s].proxy = None]
    /\ RunOnly

CloseProxy(s) ==
    /\ session[s].pc = "close"
    /\ session' = [session EXCEPT ![s].pc = "release",
                      ![s].proxy = IF @ = "open" THEN "closed" ELSE @]
    /\ RunOnly

(* Mutant: a player that stop has already stopped is not released. *)
ReleaseUnstopped(s) ==
    /\ session[s].pc = "release"
    /\ session' = [session EXCEPT ![s].pc = "finish"]
    /\ vlc' = IF session[s].player = None \/ session[s].stop THEN vlc
              ELSE [vlc EXCEPT ![s][session[s].player] = "released"]
    /\ UNCHANGED <<current, handlerProxy, caller, calls>>

(* The player of this moment is released; remote and cache follow. *)
Release(s) ==
    /\ session[s].pc = "release"
    /\ session' = [session EXCEPT ![s].pc = "finish"]
    /\ vlc' = IF session[s].player = None THEN vlc
              ELSE [vlc EXCEPT ![s][session[s].player] = "released"]
    /\ UNCHANGED <<current, handlerProxy, caller, calls>>

Finish(s) ==
    /\ session[s].pc = "finish"
    /\ session' = [session EXCEPT ![s].pc = "ended", ![s].done = TRUE]
    /\ RunOnly

Run(s) ==
    \/ Begin(s) \/ Probe(s) \/ Check(s) \/ Build(s) \/ Recheck(s) \/ Choose(s)
    \/ Branch(s) \/ MakePlayer(s) \/ NoPlayer(s) \/ Play(s) \/ Ready(s)
    \/ LeaveMonitor(s) \/ Fail(s) \/ Finally(s) \/ CloseProxy(s) \/ Release(s)
    \/ Finish(s)

-----------------------------------------------------------------------------
(* The calls of the bridge.                                                *)

CallOnly == UNCHANGED <<current, handlerProxy, session, vlc, calls>>

CallGoto(c, label) ==
    /\ caller' = [caller EXCEPT ![c].pc = label]
    /\ CallOnly

Call(c, op, label) ==
    /\ caller[c].pc = "idle"
    /\ calls < MaxCalls
    /\ calls' = calls + 1
    /\ caller' = [caller EXCEPT ![c] = [Idle EXCEPT !.op = op, !.pc = label]]
    /\ UNCHANGED <<current, handlerProxy, session, vlc>>

(* A play that has still to take a session from Unused. *)
Starting == {c \in PlayCallers :
                caller[c].pc \in {"halt", "tell", "hush", "await", "install"}}

(* bridge.play of a URL that start accepts: stop first. *)
PlayUrl(c) ==
    /\ Cardinality(Unused) > Cardinality(Starting)
    /\ Call(c, "play", "halt")

(* A URL that is neither http nor https: start returns without a word to   *)
(* play, which goes on.                                                    *)
PlayRejected(c) == Call(c, "play", "current")

UserStop(c) == Call(c, "stop", "halt")
PlayWithVlc(c) == Call(c, "vlc", "offer")

(* StreamController.stop reads the session, then tells it, without a lock. *)
Halt(c) ==
    /\ caller[c].pc = "halt"
    /\ caller' = [caller EXCEPT ![c].s = current,
          ![c].pc = IF current # None THEN "tell"
                    ELSE IF caller[c].op = "play" THEN "install" ELSE "answered"]
    /\ CallOnly

Tell(c) ==
    /\ caller[c].pc = "tell"
    /\ session' = [session EXCEPT ![caller[c].s].stop = TRUE]
    /\ caller' = [caller EXCEPT ![c].pc = "hush"]
    /\ UNCHANGED <<current, handlerProxy, vlc, calls>>

(* player.stop, which does nothing to a player that is released. *)
Hush(c) ==
    LET s == caller[c].s
        p == session[s].player
    IN  /\ caller[c].pc = "hush"
        /\ caller' = [caller EXCEPT ![c].pc = "await"]
        /\ vlc' = IF p # None /\ vlc[s][p] = "playing"
                  THEN [vlc EXCEPT ![s][p] = "silent"] ELSE vlc
        /\ UNCHANGED <<current, handlerProxy, session, calls>>

(* The wait for _done gives up after 3 s, when a slow step is under way. *)
Await(c) ==
    /\ caller[c].pc = "await"
    /\ session[caller[c].s].done \/ session[caller[c].s].pc \in SlowSteps
    /\ CallGoto(c, IF caller[c].op = "play" THEN "install" ELSE "answered")

Install(c) ==
    /\ caller[c].pc = "install"
    /\ Unused # {}
    /\ LET s == CHOOSE s \in Unused : TRUE
       IN  /\ current' = s
           /\ session' = [session EXCEPT ![s].pc = "installed"]
           /\ caller' = [caller EXCEPT ![c].pc = "launch", ![c].s = s, ![c].own = s]
    /\ UNCHANGED <<handlerProxy, vlc, calls>>

Launch(c) ==
    /\ caller[c].pc = "launch"
    /\ session' = [session EXCEPT ![caller[c].own].pc = "begin"]
    /\ caller' = [caller EXCEPT ![c].pc = "current"]
    /\ UNCHANGED <<current, handlerProxy, vlc, calls>>

(* play does not know what start did: it takes the session of the moment. *)
Current(c) ==
    /\ caller[c].pc = "current"
    /\ caller' = [caller EXCEPT ![c].s = current,
                     ![c].pc = IF current = None THEN "answered" ELSE "wait"]
    /\ CallOnly

(* Mutant: a failed session is not told from a ready one. *)
WaitReadyBlind(c) ==
    LET a == session[caller[c].s]
    IN  /\ caller[c].pc = "wait"
        /\ a.ready \/ a.pc \in SlowSteps
        /\ caller' = [caller EXCEPT ![c].pc = "answered", ![c].ok = a.proxy # "none"]
        /\ CallOnly

(* wait_ready gives up after 25 s; the answer is ok when nothing has gone  *)
(* wrong and there is a proxy, open or not.                                *)
WaitReady(c) ==
    LET a == session[caller[c].s]
    IN  /\ caller[c].pc = "wait"
        /\ a.ready \/ a.pc \in SlowSteps
        /\ caller' = [caller EXCEPT ![c].pc = "answered",
                                    ![c].ok = ~a.error /\ a.proxy # "none"]
        /\ CallOnly

(* start_vlc_fallback: a session that is stopped, has no proxy yet or has  *)
(* a player is left alone.                                                 *)
Offer(c) ==
    /\ caller[c].pc = "offer"
    /\ caller' = [caller EXCEPT ![c].s = current,
          ![c].pc = IF /\ current # None
                       /\ ~session[current].stop
                       /\ session[current].proxy # "none"
                       /\ session[current].player = None
                    THEN "mode" ELSE "answered"]
    /\ CallOnly

SetMode(c) ==
    /\ caller[c].pc = "mode"
    /\ session' = [session EXCEPT ![caller[c].s].mode = "vlc"]
    /\ caller' = [caller EXCEPT ![c].pc = "make"]
    /\ UNCHANGED <<current, handlerProxy, vlc, calls>>

FallbackPlayer(c) ==
    /\ caller[c].pc = "make"
    /\ session' = [session EXCEPT ![caller[c].s].player = c]
    /\ vlc' = [vlc EXCEPT ![caller[c].s][c] = "silent"]
    /\ caller' = [caller EXCEPT ![c].pc = "handover"]
    /\ UNCHANGED <<current, handlerProxy, calls>>

FallbackFailed(c) == caller[c].pc = "make" /\ CallGoto(c, "answered")

(* The fallback ends here when play raises, as on a player that is         *)
(* released.                                                               *)
HandOver(c) ==
    LET s == caller[c].s
        p == session[s].player
    IN  /\ caller[c].pc = "handover"
        /\ \E sound \in Sounds :
               vlc' = IF vlc[s][p] = "released" THEN vlc
                      ELSE [vlc EXCEPT ![s][p] = sound]
        /\ caller' = [caller EXCEPT ![c].pc = "answered"]
        /\ UNCHANGED <<current, handlerProxy, session, calls>>

Return(c) ==
    /\ caller[c].pc = "answered"
    /\ caller' = [caller EXCEPT ![c] = Idle]
    /\ CallOnly

CallStep(c) ==
    \/ Halt(c) \/ Tell(c) \/ Hush(c) \/ Await(c) \/ Install(c) \/ Launch(c)
    \/ Current(c) \/ WaitReady(c) \/ Offer(c) \/ SetMode(c) \/ FallbackPlayer(c)
    \/ FallbackFailed(c) \/ HandOver(c) \/ Return(c)

-----------------------------------------------------------------------------
(* Every call has returned and every session plays on or has ended. *)
Quiescent ==
    /\ \A c \in Callers : caller[c].pc = "idle"
    /\ \A s \in Sessions : session[s].pc \in {"none", "monitor", "ended"}
    /\ UNCHANGED sessionVars

SessionNext ==
    \/ \E s \in Sessions : Run(s) \/ PlaybackEnded(s)
    \/ \E c \in PlayCallers : PlayUrl(c) \/ PlayRejected(c)
    \/ \E c \in UserCallers : UserStop(c) \/ PlayWithVlc(c)
    \/ \E c \in Callers : CallStep(c)
    \/ Quiescent

SessionSpec == SessionInit /\ [][SessionNext]_sessionVars

(* Threads are scheduled; the network and libvlc answer or fail in the end. *)
FairSessionSpec ==
    /\ SessionSpec
    /\ \A s \in Sessions : WF_sessionVars(Run(s))
    /\ \A c \in Callers : WF_sessionVars(CallStep(c))

-----------------------------------------------------------------------------
(* Properties.                                                             *)

SessionRecords ==
    [pc : SessionSteps, stop : BOOLEAN, ready : BOOLEAN, done : BOOLEAN,
     error : BOOLEAN, mode : {"html5", "vlc"}, proxy : {"none", "open", "closed"},
     player : Makers \cup {None}]

CallRecords ==
    [pc : {"idle", "halt", "tell", "hush", "await", "install", "launch", "current",
           "wait", "offer", "mode", "make", "handover", "answered"},
     op : {"none", "play", "stop", "vlc"}, s : Sessions \cup {None},
     own : Sessions \cup {None}, ok : BOOLEAN]

(* Type invariant of the controller, the sessions and the callers. *)
SessionTypeOK ==
    /\ current \in Sessions \cup {None}
    /\ handlerProxy \in Sessions \cup {None}
    /\ session \in [Sessions -> SessionRecords]
    /\ vlc \in [Sessions -> [Makers -> {"none", "silent", "playing", "released"}]]
    /\ caller \in [Callers -> CallRecords]
    /\ calls \in 0..MaxCalls

(* "Only one session runs at a time; starting a new one stops the previous": *)
(* every session but the current one has been told to stop, so no session  *)
(* is left that nobody can reach.                                          *)
Superseded ==
    \A s \in Sessions :
        session[s].pc # "none" /\ s # current => session[s].stop

(* The proxy that answers the player is the current session's, once that   *)
(* has one: a session that was given up while it was still probing does    *)
(* not take the handlers over later (_ProxyHandler.proxy is one attribute  *)
(* for all sessions).                                                      *)
ProxyOwn ==
    current # None /\ session[current].proxy = "open" /\ ~session[current].stop
        => handlerProxy = current

(* A session that has ended leaves no server and no player behind, wherever *)
(* the stop or the failure met it, if nobody handed it over to VLC.        *)
LeavesNothing ==
    \A s \in Sessions :
        session[s].done /\ (\A c \in UserCallers : vlc[s][c] = "none") =>
            /\ session[s].proxy # "open"
            /\ vlc[s]["run"] \in {"none", "released"}

(* The same of every session that has ended by a stop, the ones handed over *)
(* included: a session "owns the resources of one playback: remote, cache, *)
(* proxy, player".                                                         *)
NoStrayPlayer ==
    \A s \in Sessions, m \in Makers :
        session[s].done /\ ~session[s].error => vlc[s][m] \in {"none", "released"}

(* When play answers ok for a URL it accepted, the answer is about the     *)
(* session it started, whose proxy is open unless it was told to stop.     *)
AnswerSound ==
    [][\A c \in PlayCallers :
           caller[c].pc = "wait" /\ caller'[c].ok /\ caller[c].own # None =>
               /\ caller[c].s = caller[c].own
               /\ session[caller[c].s].proxy = "open" \/ session[caller[c].s].stop]_sessionVars

(* play "starts a streaming session and waits until it is ready": an answer *)
(* that is ok is about a session this call started.                        *)
AnswerOwn ==
    \A c \in PlayCallers : caller[c].ok => caller[c].s = caller[c].own

(* Every call of the bridge returns, however the calls overlap: no wait    *)
(* for a session is left to its timeout but while the network or libvlc    *)
(* takes its time, for a session becomes ready on every way out and done   *)
(* once it was told to stop.                                               *)
CallsReturn == \A c \in Callers : caller[c].pc # "idle" ~> caller[c].pc = "idle"

(* A session that is told to stop comes to its end, whatever it was doing. *)
StopEnds == \A s \in Sessions : session[s].stop ~> session[s].done
=============================================================================
