---------------------------------- MODULE Page ----------------------------------
(***************************************************************************)
(* The page (ui/web/app.js) over ui/bridge.py: what it believes is playing *)
(* and what is. Its event loop runs one handler at a time; a call of the   *)
(* bridge runs on a thread of its own and is answered when it is done, in  *)
(* any order. The inner steps of play, stop and the fallback are Session's *)
(* matter: here they are as far apart as the page can tell.                *)
(***************************************************************************)
EXTENDS Naturals

CONSTANTS
    Callers,        \* bound: calls of the bridge under way at a time
    PlayCallers,    \* the callers that may run a play
    Poller,         \* the caller that runs the polls
    MaxSessions,    \* bound: sessions in a behaviour
    MaxCalls,       \* bound: calls of the page in a behaviour, polls apart
    None

ASSUME PageAssumption ==
    /\ PlayCallers \subseteq Callers
    /\ MaxSessions \in Nat
    /\ MaxCalls \in Nat
    /\ Poller \notin Callers
    /\ None \notin Callers \cup {Poller}

Threads == Callers \cup {Poller}
Numbers == 1..MaxSessions

VARIABLES
    now,            \* the current session, 0 before the first
    session,        \* per session its thread's step, its attributes, its status
    page,           \* [active, mode, video]
    call,           \* per caller the call it runs and its answer
    calls           \* calls so far

pageVars == <<now, session, page, call, calls>>

(* late, for the history: a status came after the session's own last one.  *)
NewSession == [pc |-> "none", stop |-> FALSE, error |-> FALSE, proxy |-> FALSE,
               mode |-> "vlc", player |-> FALSE, status |-> "going",
               late |-> FALSE]

NoCall == [op |-> "none", pc |-> "idle", arg |-> None, about |-> 0, ok |-> FALSE]

PageInit ==
    /\ now = 0
    /\ session = [s \in Numbers |-> NewSession]
    /\ page = [active |-> FALSE, mode |-> None, video |-> "none"]
    /\ call = [c \in Threads |-> NoCall]
    /\ calls = 0

-----------------------------------------------------------------------------
(* _run and _monitor of session s, by the statuses they set. The page acts *)
(* on "stopped" alone: every other status is "going" here.                 *)

Turn(s, from, record) ==
    /\ session[s].pc = from
    /\ session' = [session EXCEPT ![s] = record]
    /\ UNCHANGED <<now, page, call, calls>>

(* It is stopped before it is ready, with its proxy or without. *)
Abandoned(s) ==
    /\ session[s].stop
    /\ \E built \in BOOLEAN :
           Turn(s, "probing", [session[s] EXCEPT !.pc = "leaving", !.proxy = built])

(* The probe, the proxy or libvlc fails. *)
Failed(s) ==
    \E built \in BOOLEAN :
        Turn(s, "probing", [session[s] EXCEPT !.pc = "leaving", !.proxy = built,
                                              !.error = TRUE])

Prepared(s) ==
    \E mode \in {"html5", "vlc"} :
        Turn(s, "probing", [session[s] EXCEPT !.pc = "monitor", !.proxy = TRUE,
                 !.mode = mode, !.player = (mode = "vlc")])

(* _apply_player_state: the player plays, waits, pauses, fails or is        *)
(* stopped, by a stop or in VLC's own window. It ends no session by that.  *)
PlayerState(s) ==
    /\ session[s].player
    /\ \E status \in {"going", "stopped"} :
           /\ session[s].status # status
           /\ Turn(s, "monitor", [session[s] EXCEPT !.status = status])

(* The end of the media: the status first, then the stop. *)
PlayerEnded(s) ==
    /\ session[s].player
    /\ Turn(s, "monitor", [session[s] EXCEPT !.pc = "ending", !.status = "stopped"])

StopItself(s) ==
    Turn(s, "ending", [session[s] EXCEPT !.pc = "leaving", !.stop = TRUE])

LeaveMonitor(s) ==
    /\ session[s].stop
    /\ Turn(s, "monitor", [session[s] EXCEPT !.pc = "leaving"])

(* Mutant: the cleanup leaves the status as it is. *)
CleanupSilent(s) ==
    Turn(s, "leaving", [session[s] EXCEPT !.pc = "ended"])

(* _cleanup sets STOPPED last. *)
Cleanup(s) ==
    Turn(s, "leaving", [session[s] EXCEPT !.pc = "ended", !.status = "stopped"])

SessionStep(s) ==
    \/ Abandoned(s) \/ Failed(s) \/ Prepared(s)
    \/ StopItself(s) \/ LeaveMonitor(s) \/ Cleanup(s)

-----------------------------------------------------------------------------
(* The page's handlers up to the call they make, each on a free caller.    *)

Pending(op) == {c \in Threads : call[c].op = op}

Sent(op, arg) == [NoCall EXCEPT !.op = op, !.pc = "sent", !.arg = arg, !.about = now]

Send(c, op, arg) ==
    /\ call[c].op = "none"
    /\ calls < MaxCalls
    /\ calls' = calls + 1
    /\ call' = [call EXCEPT ![c] = Sent(op, arg)]

(* resetUI: a video that plays is paused, which is an event of its own. *)
Reset(p) == [p EXCEPT !.active = FALSE, !.mode = None,
                      !.video = IF p.mode = "html5" /\ p.video = "loaded"
                                THEN "paused" ELSE @]

(* play: the button or the Enter key, and of a URL start accepts or not. *)
PressPlay(c) ==
    /\ \E url \in {"accepted", "rejected"} : Send(c, "play", url)
    /\ page' = [Reset(page) EXCEPT !.active = TRUE]
    /\ UNCHANGED <<now, session>>

(* The button is enabled while the page is active. *)
PressStop(c) ==
    /\ page.active
    /\ Send(c, "stop", None)
    /\ page' = Reset(page)
    /\ UNCHANGED <<now, session>>

(* The events of the video: playing, waiting and pause. *)
VideoEvent(c) ==
    /\ page.video # "none"
    /\ Send(c, "report", "going")
    /\ page' = [page EXCEPT !.video = IF @ = "paused" THEN "none" ELSE @]
    /\ UNCHANGED <<now, session>>

(* ended reports, then stops as the button does: two calls. *)
VideoEnded(c, d) ==
    /\ page.video = "loaded"
    /\ c # d /\ call[c].op = "none" /\ call[d].op = "none"
    /\ calls < MaxCalls
    /\ calls' = calls + 1
    /\ call' = [call EXCEPT ![c] = Sent("report", "stopped"), ![d] = Sent("stop", None)]
    /\ page' = [Reset(page) EXCEPT !.video = "none"]
    /\ UNCHANGED <<now, session>>

(* The browser rejects the media: hand it over to VLC. *)
VideoError(c) ==
    /\ page.video = "loaded"
    /\ Send(c, "vlc", None)
    /\ page' = [page EXCEPT !.video = "none"]
    /\ UNCHANGED <<now, session>>

(* setInterval(pollStats, 250), and snapshot. *)
Poll ==
    /\ call[Poller].op = "none"
    /\ call' = [call EXCEPT ![Poller] =
           [Sent("poll", IF now = 0 THEN "going" ELSE session[now].status)
               EXCEPT !.pc = "answered"]]
    /\ UNCHANGED <<now, session, page, calls>>

-----------------------------------------------------------------------------
(* The bridge, on the caller's thread.                                     *)

BridgeStep(c, op, from, record) ==
    /\ call[c].op = op /\ call[c].pc = from
    /\ call' = [call EXCEPT ![c] = record]
    /\ UNCHANGED <<page, calls>>

(* Mutant: a session whose status is STOPPED is taken for one that is over. *)
HaltGoing(s) ==
    IF s = 0 \/ session[s].status = "stopped" THEN session
    ELSE [session EXCEPT ![s].stop = TRUE]

Halt(s) == IF s = 0 THEN session ELSE [session EXCEPT ![s].stop = TRUE]

(* stop, which the start of an accepted URL begins with. *)
StopCurrent(c) ==
    /\ \/ BridgeStep(c, "stop", "sent", NoCall)
       \/ /\ call[c].arg = "accepted"
          /\ BridgeStep(c, "play", "sent", [call[c] EXCEPT !.pc = "halted", !.about = now])
    /\ session' = Halt(now)
    /\ UNCHANGED <<now>>

(* It waits for the end of the session it stopped. (The wait is cut at 3 s; *)
(* what comes of two sessions at a time is Session's matter.)              *)
Install(c) ==
    /\ now < MaxSessions
    /\ call[c].about # 0 => session[call[c].about].pc = "ended"
    /\ BridgeStep(c, "play", "halted", [call[c] EXCEPT !.pc = "waiting", !.about = now + 1])
    /\ now' = now + 1
    /\ session' = [session EXCEPT ![now + 1] = [NewSession EXCEPT !.pc = "probing"]]

(* A URL that is rejected: play goes on with the session there is. *)
PlayRejected(c) ==
    /\ call[c].arg = "rejected"
    /\ BridgeStep(c, "play", "sent",
           [call[c] EXCEPT !.pc = IF now = 0 THEN "answered" ELSE "waiting", !.about = now])
    /\ UNCHANGED <<now, session>>

(* wait_ready and stream_info. 25 s without an answer are enough: it may   *)
(* answer at any time.                                                     *)
WaitReady(c) ==
    /\ call[c].op = "play" /\ call[c].pc = "waiting"
    /\ LET s == call[c].about
       IN  BridgeStep(c, "play", "waiting",
               [call[c] EXCEPT !.pc = "answered", !.arg = session[s].mode,
                               !.ok = ~session[s].error /\ session[s].proxy])
    /\ UNCHANGED <<now, session>>

(* A status that the page or the fallback sets, on a thread of its own. *)
WithStatus(s, status) ==
    [session[s] EXCEPT !.status = status, !.late = @ \/ session[s].pc = "ended"]

(* report_status and set_ui_status. *)
ReportStatus(c) ==
    /\ BridgeStep(c, "report", "sent", NoCall)
    /\ session' = IF now = 0 THEN session
                  ELSE [session EXCEPT ![now] = WithStatus(now, call[c].arg)]
    /\ UNCHANGED now

Offerable(s) == ~session[s].stop /\ session[s].proxy /\ ~session[s].player

(* play_with_vlc and start_vlc_fallback: the tests, then the player. *)
OfferVlc(c) ==
    /\ BridgeStep(c, "vlc", "sent",
           [call[c] EXCEPT !.about = now, !.ok = (now # 0),
              !.pc = IF now # 0 /\ Offerable(now) THEN "offered" ELSE "answered"])
    /\ UNCHANGED <<now, session>>

FallBack(c) ==
    LET s == call[c].about
    IN  /\ BridgeStep(c, "vlc", "offered", [call[c] EXCEPT !.pc = "answered"])
        /\ \E made \in BOOLEAN :
               session' = [session EXCEPT ![s] =
                   [WithStatus(s, "going") EXCEPT !.mode = "vlc", !.player = made]]
        /\ UNCHANGED now

Serve(c) ==
    \/ StopCurrent(c) \/ Install(c) \/ PlayRejected(c) \/ WaitReady(c)
    \/ ReportStatus(c) \/ OfferVlc(c) \/ FallBack(c)

-----------------------------------------------------------------------------
(* The answers, in any order.                                              *)

Answered(c, op) ==
    /\ call[c].op = op /\ call[c].pc = "answered"
    /\ call' = [call EXCEPT ![c] = NoCall]
    /\ UNCHANGED <<now, session, calls>>

PlayAnswered(c) ==
    /\ Answered(c, "play")
    /\ page' = IF call[c].ok
               THEN [page EXCEPT !.mode = call[c].arg,
                        !.video = IF call[c].arg = "html5" THEN "loaded" ELSE "none"]
               ELSE [page EXCEPT !.active = FALSE, !.mode = None]

VlcAnswered(c) ==
    /\ Answered(c, "vlc")
    /\ page' = IF call[c].ok THEN [page EXCEPT !.mode = "vlc", !.video = "none"] ELSE page

PollAnswered ==
    /\ Answered(Poller, "poll")
    /\ page' = IF page.active /\ call[Poller].arg = "stopped" THEN Reset(page) ELSE page

Deliver(c) == PlayAnswered(c) \/ VlcAnswered(c)

-----------------------------------------------------------------------------
PageNext ==
    \/ \E s \in Numbers : SessionStep(s) \/ PlayerState(s) \/ PlayerEnded(s)
    \/ \E c \in PlayCallers : PressPlay(c)
    \/ \E c \in Callers : \/ PressStop(c) \/ VideoEvent(c) \/ VideoError(c)
                          \/ \E d \in Callers : VideoEnded(c, d)
                          \/ Serve(c) \/ Deliver(c)
    \/ Poll \/ PollAnswered

PageSpec == PageInit /\ [][PageNext]_pageVars

(* Threads run, answers arrive and the timer fires; nobody has to press a  *)
(* button, and no media has to end.                                        *)
FairPageSpec ==
    /\ PageSpec
    /\ \A s \in Numbers : WF_pageVars(SessionStep(s))
    /\ \A c \in Callers : WF_pageVars(Serve(c)) /\ WF_pageVars(Deliver(c))
    /\ WF_pageVars(Poll) /\ WF_pageVars(PollAnswered)

-----------------------------------------------------------------------------
(* Properties.                                                             *)

(* A call that stops is heeded: the session that was current when Stop was *)
(* pressed, or when the play of another URL began, comes to its end,       *)
(* whatever its player, the page or a fallback have made of its status,    *)
(* also one that is STOPPED already without being over, and even when the  *)
(* page has lost its Stop button: a new play replaces what runs.           *)
Halting(c, s) ==
    \/ call[c].op = "stop" /\ call[c].about = s
    \/ call[c].op = "play" /\ call[c].pc = "halted" /\ call[c].about = s

CallsHeeded ==
    \A s \in Numbers : (\E c \in Callers : Halting(c, s)) ~> session[s].pc = "ended"

(* The page does not stay active over a session that has ended, whoever    *)
(* ended it and whichever polls it missed, unless a status came after the  *)
(* session's own last one (_cleanup: STOPPED; pollStats resets on          *)
(* "stopped").                                                             *)
PageFollows ==
    []<>( \/ ~page.active
          \/ Pending("play") # {}
          \/ now # 0 /\ (session[now].pc # "ended" \/ session[now].late) )

(* A session that runs on can be stopped: the page, whose Stop button is   *)
(* enabled only while it is active, is active whenever the current session *)
(* plays or prepares and no play or stop is under way.                     *)
Stoppable ==
    now # 0 /\ Pending("play") = {} /\ Pending("stop") = {} =>
        (session[now].pc \in {"probing", "monitor"} /\ ~session[now].stop => page.active)
=============================================================================
