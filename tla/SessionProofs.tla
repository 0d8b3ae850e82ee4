----------------------------- MODULE SessionProofs -----------------------------
(***************************************************************************)
(* Theorems of Session: for any callers, types and what a session leaves   *)
(* behind; with one thread in play, every session but the current one is   *)
(* told to stop, the handlers answer from the current session's proxy, and *)
(* an ok answer of play is about the session it started.                   *)
(***************************************************************************)
EXTENDS Session, TLAPS

-----------------------------------------------------------------------------
(* Types.                                                                  *)

(* Where a call has a session in hand, where a play has started one, and   *)
(* who falls back to VLC.                                                  *)
InHand ==
    \A c \in Callers :
        /\ caller[c].pc \in {"tell", "hush", "await", "wait", "mode", "make", "handover"}
               => caller[c].s \in Sessions
        /\ caller[c].pc = "launch" => caller[c].own \in Sessions
        /\ caller[c].pc = "handover" => session[caller[c].s].player # None
        /\ caller[c].pc \in {"offer", "mode", "make"} => c \in UserCallers

(* A session about to play its player has one. *)
PlayerThere ==
    \A s \in Sessions : session[s].pc = "play" => session[s].player # None

Typed == SessionTypeOK /\ InHand /\ PlayerThere

LEMMA NewTyped == NewSession \in SessionRecords
BY DEF NewSession, SessionRecords, SessionSteps, RunSteps

LEMMA IdleTyped == Idle \in CallRecords
BY DEF Idle, CallRecords

LEMMA TypedInit == SessionInit => Typed
<1> SUFFICES ASSUME SessionInit PROVE Typed
  OBVIOUS
<1>1. session \in [Sessions -> SessionRecords]
  BY NewTyped DEF SessionInit
<1>2. caller \in [Callers -> CallRecords]
  BY IdleTyped DEF SessionInit
<1>3. SessionTypeOK
  BY <1>1, <1>2, SessionAssumption DEF SessionInit, SessionTypeOK
<1>4. InHand
  BY DEF SessionInit, InHand, Idle
<1>5. PlayerThere
  BY DEF SessionInit, PlayerThere, NewSession
<1> QED
  BY <1>3, <1>4, <1>5 DEF Typed

(* A step of a session's thread: no call moves, and no session loses its   *)
(* player.                                                                 *)
LEMMA RunKeepsTypes ==
    ASSUME Typed, NEW s \in Sessions, NEW r \in SessionRecords,
           session' = [session EXCEPT ![s] = r],
           session[s].player # None => r.player # None,
           r.pc = "play" => r.player # None,
           handlerProxy' \in Sessions \cup {None},
           vlc' \in [Sessions -> [Makers -> {"none", "silent", "playing", "released"}]],
           UNCHANGED <<current, caller, calls>>
    PROVE  Typed'
<1>1. session' \in [Sessions -> SessionRecords]
  BY DEF Typed, SessionTypeOK
<1>2. SessionTypeOK'
  BY <1>1 DEF Typed, SessionTypeOK
<1>3. \A t \in Sessions : session[t].player # None => session'[t].player # None
  BY DEF Typed, SessionTypeOK
<1>4. InHand'
  BY <1>3 DEF Typed, InHand
<1>5. PlayerThere'
  BY <1>3 DEF Typed, PlayerThere, SessionTypeOK
<1> QED
  BY <1>2, <1>4, <1>5 DEF Typed

LEMMA RunGotoTyped ==
    ASSUME Typed, NEW s \in Sessions, NEW from, NEW to \in SessionSteps \ {"play"},
           RunGoto(s, from, to)
    PROVE  Typed'
<1> DEFINE r == [session[s] EXCEPT !.pc = to]
<1>1. session[s] \in SessionRecords
  BY DEF Typed, SessionTypeOK
<1>2. r \in SessionRecords /\ r.player = session[s].player /\ r.pc # "play"
  BY <1>1 DEF SessionRecords
<1>3. session' = [session EXCEPT ![s] = r] /\ RunOnly
  BY DEF RunGoto
<1> QED
  BY <1>2, <1>3, RunKeepsTypes DEF RunOnly, Typed, SessionTypeOK

(* Every step of a session's thread keeps the types. *)
LEMMA RunTyped ==
    ASSUME Typed, NEW s \in Sessions, Run(s) \/ PlaybackEnded(s)
    PROVE  Typed'
<1> USE DEF SessionSteps, RunSteps
<1>0. /\ session[s] \in SessionRecords
      /\ vlc \in [Sessions -> [Makers -> {"none", "silent", "playing", "released"}]]
      /\ handlerProxy \in Sessions \cup {None}
  BY DEF Typed, SessionTypeOK
<1> DEFINE Keeps(r) ==
        /\ r \in SessionRecords
        /\ session[s].player # None => r.player # None
        /\ r.pc = "play" => r.player # None
<1>1. ASSUME NEW r, Keeps(r), session' = [session EXCEPT ![s] = r], RunOnly
      PROVE  Typed'
  BY <1>0, <1>1, RunKeepsTypes DEF RunOnly
<1>2. CASE Begin(s)
  BY <1>2, RunGotoTyped DEF Begin
<1>3. CASE Probe(s)
  BY <1>3, RunGotoTyped DEF Probe
<1>4. CASE Check(s)
  BY <1>4, RunGotoTyped DEF Check
<1>5. CASE Build(s)
  <2> DEFINE r1 == [session[s] EXCEPT !.pc = "recheck", !.proxy = "open"]
             r2 == [session[s] EXCEPT !.pc = "fail"]
  <2>1. Keeps(r1) /\ Keeps(r2)
    BY <1>0 DEF SessionRecords
  <2>2. \/ session' = [session EXCEPT ![s] = r1]
        \/ session' = [session EXCEPT ![s] = r2]
    BY <1>5 DEF Build
  <2>3. UNCHANGED <<current, vlc, caller, calls>> /\ handlerProxy' = s
    BY <1>5 DEF Build
  <2> QED
    BY <1>0, <2>1, <2>2, <2>3, RunKeepsTypes
<1>6. CASE Recheck(s)
  BY <1>6, RunGotoTyped DEF Recheck
<1>7. CASE Choose(s)
  <2>1. PICK mode \in {"html5", "vlc"} :
            session' = [session EXCEPT ![s].pc = "branch", ![s].mode = mode]
    BY <1>7 DEF Choose
  <2> DEFINE r == [session[s] EXCEPT !.pc = "branch", !.mode = mode]
  <2>2. Keeps(r) /\ session' = [session EXCEPT ![s] = r]
    BY <1>0, <2>1 DEF SessionRecords
  <2> QED
    BY <1>1, <1>7, <2>2 DEF Choose
<1>8. CASE Branch(s)
  BY <1>8, RunGotoTyped DEF Branch
<1>9. CASE MakePlayer(s)
  <2> DEFINE r == [session[s] EXCEPT !.pc = "play", !.player = "run"]
  <2>1. Keeps(r)
    BY <1>0, SessionAssumption DEF SessionRecords, Makers
  <2>2. /\ session' = [session EXCEPT ![s] = r]
        /\ vlc' = [vlc EXCEPT ![s]["run"] = "silent"]
        /\ UNCHANGED <<current, handlerProxy, caller, calls>>
    BY <1>9 DEF MakePlayer
  <2> QED
    BY <1>0, <2>1, <2>2, RunKeepsTypes
<1>10. CASE NoPlayer(s)
  BY <1>10, RunGotoTyped DEF NoPlayer
<1>11. CASE Play(s)
  <2>0. PICK sound \in Sounds :
           /\ session' = [session EXCEPT
                  ![s].pc = IF sound = "playing" THEN "ready" ELSE "fail"]
           /\ vlc' = [vlc EXCEPT ![s][session[s].player] = sound]
    BY <1>11 DEF Play
  <2> DEFINE r == [session[s] EXCEPT
                       !.pc = IF sound = "playing" THEN "ready" ELSE "fail"]
  <2>1. Keeps(r)
    BY <1>0 DEF SessionRecords
  <2>2. session[s].player \in Makers
    BY <1>0, <1>11 DEF Typed, PlayerThere, Play, SessionRecords
  <2>3. /\ session' = [session EXCEPT ![s] = r]
        /\ vlc' = [vlc EXCEPT ![s][session[s].player] = sound]
        /\ UNCHANGED <<current, handlerProxy, caller, calls>>
    BY <1>11, <2>0 DEF Play
  <2> QED
    BY <1>0, <2>1, <2>2, <2>3, RunKeepsTypes DEF Sounds
<1>12. CASE Ready(s)
  <2> DEFINE r == [session[s] EXCEPT !.pc = "monitor", !.ready = TRUE]
  <2>1. Keeps(r)
    BY <1>0, <1>12 DEF Ready, SessionRecords
  <2>2. session' = [session EXCEPT ![s] = r] /\ RunOnly
    BY <1>12 DEF Ready
  <2> QED
    BY <1>1, <2>1, <2>2
<1>13. CASE LeaveMonitor(s)
  BY <1>13, RunGotoTyped DEF LeaveMonitor
<1>14. CASE Fail(s)
  <2> DEFINE r == [session[s] EXCEPT !.pc = "cleanup", !.error = TRUE]
  <2>1. Keeps(r)
    BY <1>0, <1>14 DEF Fail, SessionRecords
  <2>2. session' = [session EXCEPT ![s] = r] /\ RunOnly
    BY <1>14 DEF Fail
  <2> QED
    BY <1>1, <2>1, <2>2
<1>15. CASE Finally(s)
  <2> DEFINE r == [session[s] EXCEPT !.pc = "close", !.ready = TRUE]
  <2>1. Keeps(r)
    BY <1>0, <1>15 DEF Finally, SessionRecords
  <2>2. session' = [session EXCEPT ![s] = r] /\ RunOnly
    BY <1>15 DEF Finally
  <2> QED
    BY <1>1, <2>1, <2>2
<1>16. CASE CloseProxy(s)
  <2> DEFINE r == [session[s] EXCEPT !.pc = "release",
                                     !.proxy = IF @ = "open" THEN "closed" ELSE @]
  <2>1. Keeps(r)
    BY <1>0, <1>16 DEF CloseProxy, SessionRecords
  <2>2. session' = [session EXCEPT ![s] = r] /\ RunOnly
    BY <1>16 DEF CloseProxy
  <2> HIDE DEF r
  <2> QED
    BY <1>1, <2>1, <2>2
<1>17. CASE Release(s)
  <2> DEFINE r == [session[s] EXCEPT !.pc = "finish"]
  <2>1. Keeps(r)
    BY <1>0 DEF SessionRecords
  <2>2. session[s].player \in Makers \cup {None}
    BY <1>0 DEF SessionRecords
  <2>3. /\ session' = [session EXCEPT ![s] = r]
        /\ UNCHANGED <<current, handlerProxy, caller, calls>>
        /\ vlc' = IF session[s].player = None THEN vlc
                  ELSE [vlc EXCEPT ![s][session[s].player] = "released"]
    BY <1>17 DEF Release
  <2> QED
    BY <1>0, <2>1, <2>2, <2>3, RunKeepsTypes
<1>18. CASE Finish(s)
  <2> DEFINE r == [session[s] EXCEPT !.pc = "ended", !.done = TRUE]
  <2>1. Keeps(r)
    BY <1>0, <1>18 DEF Finish, SessionRecords
  <2>2. session' = [session EXCEPT ![s] = r] /\ RunOnly
    BY <1>18 DEF Finish
  <2> QED
    BY <1>1, <2>1, <2>2
<1>19. CASE PlaybackEnded(s)
  <2> DEFINE r == [session[s] EXCEPT !.stop = TRUE]
  <2>1. Keeps(r)
    BY <1>0, <1>19 DEF PlaybackEnded, SessionRecords
  <2>2. session' = [session EXCEPT ![s] = r] /\ RunOnly
    BY <1>19 DEF PlaybackEnded
  <2> QED
    BY <1>1, <2>1, <2>2
<1> QED
  BY <1>2, <1>3, <1>4, <1>5, <1>6, <1>7, <1>8, <1>9, <1>10, <1>11, <1>12,
     <1>13, <1>14, <1>15, <1>16, <1>17, <1>18, <1>19 DEF Run

(* A step of a call that moves only its caller. *)
LEMMA CallKeepsTypes ==
    ASSUME Typed, NEW c \in Callers, NEW r \in CallRecords,
           caller' = [caller EXCEPT ![c] = r],
           r.pc \in {"tell", "hush", "await", "wait", "mode", "make", "handover"}
               => r.s \in Sessions,
           r.pc = "launch" => r.own \in Sessions,
           r.pc = "handover" => session'[r.s].player # None,
           r.pc \in {"offer", "mode", "make"} => c \in UserCallers,
           current' \in Sessions \cup {None},
           session' \in [Sessions -> SessionRecords],
           \A s \in Sessions :
               /\ session[s].player # None => session'[s].player # None
               /\ session'[s].pc = "play" => session'[s].player # None,
           vlc' \in [Sessions -> [Makers -> {"none", "silent", "playing", "released"}]],
           calls' \in 0..MaxCalls,
           UNCHANGED handlerProxy
    PROVE  Typed'
<1>1. caller' \in [Callers -> CallRecords]
  BY DEF Typed, SessionTypeOK
<1>2. SessionTypeOK'
  BY <1>1 DEF Typed, SessionTypeOK
<1>3. InHand'
  <2> SUFFICES ASSUME NEW d \in Callers
               PROVE  /\ caller'[d].pc \in {"tell", "hush", "await", "wait", "mode",
                                             "make", "handover"}
                             => caller'[d].s \in Sessions
                      /\ caller'[d].pc = "launch" => caller'[d].own \in Sessions
                      /\ caller'[d].pc = "handover"
                             => session'[caller'[d].s].player # None
                      /\ caller'[d].pc \in {"offer", "mode", "make"}
                             => d \in UserCallers
    BY DEF InHand
  <2>1. CASE d = c
    BY <2>1 DEF Typed, SessionTypeOK
  <2>2. CASE d # c
    BY <2>2 DEF Typed, SessionTypeOK, InHand
  <2> QED
    BY <2>1, <2>2
<1>4. PlayerThere'
  BY DEF PlayerThere
<1> QED
  BY <1>2, <1>3, <1>4 DEF Typed

(* Calls begin only with what their callers do. *)
LEMMA CallBeginTyped ==
    ASSUME Typed, NEW c \in Callers, NEW op \in {"play", "stop", "vlc"},
           NEW label \in {"halt", "current", "offer"},
           label = "offer" => c \in UserCallers,
           Call(c, op, label)
    PROVE  Typed'
<1> DEFINE r == [Idle EXCEPT !.op = op, !.pc = label]
<1>1. r \in CallRecords /\ r.pc = label
  BY DEF Idle, CallRecords
<1>2. /\ caller' = [caller EXCEPT ![c] = r]
      /\ calls < MaxCalls /\ calls' = calls + 1
      /\ UNCHANGED <<current, handlerProxy, session, vlc>>
  BY DEF Call
<1>3. calls' \in 0..MaxCalls
  BY <1>2, SessionAssumption DEF Typed, SessionTypeOK
<1> HIDE DEF r
<1> QED
  BY <1>1, <1>2, <1>3, CallKeepsTypes DEF Typed, SessionTypeOK, PlayerThere

(* Every step of a call keeps the types. *)
LEMMA CallTyped ==
    ASSUME Typed, NEW c \in Callers, CallStep(c)
    PROVE  Typed'
<1>0. /\ caller[c] \in CallRecords
      /\ current \in Sessions \cup {None}
      /\ session \in [Sessions -> SessionRecords]
      /\ vlc \in [Sessions -> [Makers -> {"none", "silent", "playing", "released"}]]
      /\ calls \in 0..MaxCalls
      /\ PlayerThere
  BY DEF Typed, SessionTypeOK
<1> DEFINE Places(r) ==
        /\ r \in CallRecords
        /\ r.pc \in {"tell", "hush", "await", "wait", "mode", "make"}
               => r.s \in Sessions
        /\ r.pc = "launch" => r.own \in Sessions
        /\ r.pc # "handover"
        /\ r.pc \in {"offer", "mode", "make"} => c \in UserCallers
<1>1. ASSUME NEW r, Places(r), caller' = [caller EXCEPT ![c] = r], CallOnly
      PROVE  Typed'
  BY <1>0, <1>1, CallKeepsTypes DEF CallOnly, PlayerThere
<1>2. ASSUME NEW r, Places(r), caller' = [caller EXCEPT ![c] = r],
             NEW s \in Sessions, NEW q \in SessionRecords,
             session' = [session EXCEPT ![s] = q],
             q.player = session[s].player, q.pc # "play" \/ q.pc = session[s].pc,
             current' \in Sessions \cup {None},
             UNCHANGED <<handlerProxy, vlc, calls>>
      PROVE  Typed'
  <2>1. session' \in [Sessions -> SessionRecords]
    BY <1>0, <1>2
  <2>2. \A t \in Sessions :
            /\ session[t].player # None => session'[t].player # None
            /\ session'[t].pc = "play" => session'[t].player # None
    BY <1>0, <1>2 DEF PlayerThere
  <2> QED
    BY <1>0, <1>2, <2>1, <2>2, CallKeepsTypes
<1>3. CASE Halt(c)
  <2> DEFINE r == [caller[c] EXCEPT !.s = current,
          !.pc = IF current # None THEN "tell"
                 ELSE IF caller[c].op = "play" THEN "install" ELSE "answered"]
  <2>1. Places(r)
    BY <1>0, <1>3 DEF Halt, CallRecords
  <2>2. caller' = [caller EXCEPT ![c] = r] /\ CallOnly
    BY <1>3 DEF Halt
  <2> HIDE DEF r
  <2> QED
    BY <1>1, <2>1, <2>2
<1>4. CASE Tell(c)
  <2> DEFINE s == caller[c].s
             r == [caller[c] EXCEPT !.pc = "hush"]
             q == [session[s] EXCEPT !.stop = TRUE]
  <2>1. s \in Sessions
    BY <1>4 DEF Typed, InHand, Tell
  <2>2. /\ caller' = [caller EXCEPT ![c] = r]
        /\ session' = [session EXCEPT ![s] = q]
        /\ UNCHANGED <<current, handlerProxy, vlc, calls>>
    BY <1>4 DEF Tell
  <2>3. Places(r)
    BY <1>0, <2>1 DEF CallRecords
  <2> HIDE DEF s
  <2>4. q \in SessionRecords /\ q.player = session[s].player /\ q.pc = session[s].pc
    BY <1>0, <2>1 DEF SessionRecords
  <2> HIDE DEF r, q
  <2> QED
    BY <1>0, <1>2, <2>1, <2>2, <2>3, <2>4
<1>5. CASE Hush(c)
  <2> DEFINE r == [caller[c] EXCEPT !.pc = "await"]
             s == caller[c].s
             p == session[s].player
  <2>1. s \in Sessions
    BY <1>5 DEF Typed, InHand, Hush
  <2>2. Places(r)
    BY <1>0, <2>1 DEF CallRecords
  <2>3. p \in Makers \cup {None}
    BY <1>0, <2>1 DEF SessionRecords
  <2>4. /\ caller' = [caller EXCEPT ![c] = r]
        /\ vlc' = IF p # None /\ vlc[s][p] = "playing"
                  THEN [vlc EXCEPT ![s][p] = "silent"] ELSE vlc
        /\ UNCHANGED <<current, handlerProxy, session, calls>>
    BY <1>5 DEF Hush
  <2>5. vlc' \in [Sessions -> [Makers -> {"none", "silent", "playing", "released"}]]
    BY <1>0, <2>1, <2>3, <2>4
  <2> HIDE DEF r, s, p
  <2> QED
    BY <1>0, <2>2, <2>4, <2>5, CallKeepsTypes DEF PlayerThere
<1>6. CASE Await(c)
  <2> DEFINE r == [caller[c] EXCEPT
                     !.pc = IF caller[c].op = "play" THEN "install" ELSE "answered"]
  <2>1. Places(r)
    BY <1>0 DEF CallRecords
  <2>2. caller' = [caller EXCEPT ![c] = r] /\ CallOnly
    BY <1>6 DEF Await, CallGoto
  <2> HIDE DEF r
  <2> QED
    BY <1>1, <2>1, <2>2
<1>7. CASE Install(c)
  <2> DEFINE s == CHOOSE t \in Unused : TRUE
             r == [caller[c] EXCEPT !.pc = "launch", !.s = s, !.own = s]
             q == [session[s] EXCEPT !.pc = "installed"]
  <2>1. s \in Sessions
    BY <1>7 DEF Install, Unused
  <2>2. /\ caller' = [caller EXCEPT ![c] = r]
        /\ session' = [session EXCEPT ![s] = q]
        /\ current' = s /\ UNCHANGED <<handlerProxy, vlc, calls>>
    BY <1>7 DEF Install
  <2> HIDE DEF s
  <2>3. Places(r)
    BY <1>0, <2>1 DEF CallRecords
  <2>4. q \in SessionRecords /\ q.player = session[s].player /\ q.pc # "play"
    BY <1>0, <2>1 DEF SessionRecords, SessionSteps
  <2> HIDE DEF r, q
  <2> QED
    BY <1>2, <2>1, <2>2, <2>3, <2>4
<1>8. CASE Launch(c)
  <2> DEFINE s == caller[c].own
             r == [caller[c] EXCEPT !.pc = "current"]
             q == [session[s] EXCEPT !.pc = "begin"]
  <2>1. s \in Sessions
    BY <1>8 DEF Typed, InHand, Launch
  <2>2. /\ caller' = [caller EXCEPT ![c] = r]
        /\ session' = [session EXCEPT ![s] = q]
        /\ UNCHANGED <<current, handlerProxy, vlc, calls>>
    BY <1>8 DEF Launch
  <2>3. Places(r)
    BY <1>0 DEF CallRecords
  <2> HIDE DEF s
  <2>4. q \in SessionRecords /\ q.player = session[s].player /\ q.pc # "play"
    BY <1>0, <2>1, SMTT(30) DEF SessionRecords, SessionSteps, RunSteps
  <2> HIDE DEF r, q
  <2> QED
    BY <1>0, <1>2, <2>1, <2>2, <2>3, <2>4
<1>9. CASE Current(c)
  <2> DEFINE r == [caller[c] EXCEPT !.s = current,
                     !.pc = IF current = None THEN "answered" ELSE "wait"]
  <2>1. Places(r)
    BY <1>0 DEF CallRecords
  <2>2. caller' = [caller EXCEPT ![c] = r] /\ CallOnly
    BY <1>9 DEF Current
  <2> HIDE DEF r
  <2> QED
    BY <1>1, <2>1, <2>2
<1>10. CASE WaitReady(c)
  <2> DEFINE r == [caller[c] EXCEPT !.pc = "answered",
                     !.ok = /\ ~session[caller[c].s].error
                            /\ session[caller[c].s].proxy # "none"]
  <2>1. Places(r)
    BY <1>0 DEF CallRecords
  <2>2. caller' = [caller EXCEPT ![c] = r] /\ CallOnly
    BY <1>10 DEF WaitReady
  <2> HIDE DEF r
  <2> QED
    BY <1>1, <2>1, <2>2
<1>11. CASE Offer(c)
  <2> DEFINE fit == /\ current # None
                    /\ ~session[current].stop
                    /\ session[current].proxy # "none"
                    /\ session[current].player = None
             r == [caller[c] EXCEPT !.s = current,
                     !.pc = IF fit THEN "mode" ELSE "answered"]
  <2>1. c \in UserCallers
    BY <1>11 DEF Typed, InHand, Offer
  <2>2. caller' = [caller EXCEPT ![c] = r] /\ CallOnly
    BY <1>11 DEF Offer
  <2>3. fit => current \in Sessions
    BY <1>0
  <2> HIDE DEF fit
  <2>4. Places(r)
    BY <1>0, <2>1, <2>3 DEF CallRecords
  <2> HIDE DEF r
  <2> QED
    BY <1>1, <2>2, <2>4
<1>12. CASE SetMode(c)
  <2> DEFINE s == caller[c].s
             r == [caller[c] EXCEPT !.pc = "make"]
             q == [session[s] EXCEPT !.mode = "vlc"]
  <2>1. s \in Sessions /\ c \in UserCallers
    BY <1>12 DEF Typed, InHand, SetMode
  <2>2. /\ caller' = [caller EXCEPT ![c] = r]
        /\ session' = [session EXCEPT ![s] = q]
        /\ UNCHANGED <<current, handlerProxy, vlc, calls>>
    BY <1>12 DEF SetMode
  <2>3. Places(r)
    BY <1>0, <2>1 DEF CallRecords
  <2> HIDE DEF s
  <2>4. q \in SessionRecords /\ q.player = session[s].player /\ q.pc = session[s].pc
    BY <1>0, <2>1, ZenonT(40) DEF SessionRecords
  <2> HIDE DEF r, q
  <2> QED
    BY <1>0, <1>2, <2>1, <2>2, <2>3, <2>4
<1>13. CASE FallbackPlayer(c)
  <2> DEFINE s == caller[c].s
             r == [caller[c] EXCEPT !.pc = "handover"]
             q == [session[s] EXCEPT !.player = c]
  <2>1. s \in Sessions /\ c \in UserCallers
    BY <1>13 DEF Typed, InHand, FallbackPlayer
  <2>2. /\ caller' = [caller EXCEPT ![c] = r]
        /\ session' = [session EXCEPT ![s] = q]
        /\ vlc' = [vlc EXCEPT ![s][c] = "silent"]
        /\ UNCHANGED <<current, handlerProxy, calls>>
    BY <1>13 DEF FallbackPlayer
  <2>3. r \in CallRecords /\ r.pc = "handover" /\ r.s = s
    BY <1>0 DEF CallRecords
  <2>4. c # None /\ c \in Makers
    BY <2>1, SessionAssumption DEF Makers
  <2> HIDE DEF s, r
  <2>5. q \in SessionRecords /\ q.player = c /\ q.pc = session[s].pc
    BY <1>0, <2>1, <2>4 DEF SessionRecords
  <2>6. vlc' \in [Sessions -> [Makers -> {"none", "silent", "playing", "released"}]]
    BY <1>0, <2>1, <2>2, <2>4
  <2> HIDE DEF q
  <2>7. session' \in [Sessions -> SessionRecords] /\ session'[s].player = c
    BY <1>0, <2>1, <2>2, <2>5
  <2>8. \A t \in Sessions :
            /\ session[t].player # None => session'[t].player # None
            /\ session'[t].pc = "play" => session'[t].player # None
    BY <1>0, <2>1, <2>2, <2>4, <2>5 DEF PlayerThere
  <2> QED
    BY <1>0, <2>1, <2>2, <2>3, <2>4, <2>6, <2>7, <2>8, CallKeepsTypes
<1>14. CASE FallbackFailed(c)
  <2> DEFINE r == [caller[c] EXCEPT !.pc = "answered"]
  <2>1. Places(r)
    BY <1>0 DEF CallRecords
  <2>2. caller' = [caller EXCEPT ![c] = r] /\ CallOnly
    BY <1>14 DEF FallbackFailed, CallGoto
  <2> HIDE DEF r
  <2> QED
    BY <1>1, <2>1, <2>2
<1>15. CASE HandOver(c)
  <2> DEFINE s == caller[c].s
             p == session[s].player
             r == [caller[c] EXCEPT !.pc = "answered"]
  <2>1. s \in Sessions /\ p # None
    BY <1>15 DEF Typed, InHand, HandOver
  <2>2. p \in Makers
    BY <1>0, <2>1 DEF SessionRecords
  <2>3. Places(r)
    BY <1>0 DEF CallRecords
  <2>4. /\ caller' = [caller EXCEPT ![c] = r]
        /\ \E sound \in Sounds :
               vlc' = IF vlc[s][p] = "released" THEN vlc
                      ELSE [vlc EXCEPT ![s][p] = sound]
        /\ UNCHANGED <<current, handlerProxy, session, calls>>
    BY <1>15 DEF HandOver
  <2>5. vlc' \in [Sessions -> [Makers -> {"none", "silent", "playing", "released"}]]
    BY <1>0, <2>1, <2>2, <2>4 DEF Sounds
  <2> HIDE DEF r, s, p
  <2> QED
    BY <1>0, <2>3, <2>4, <2>5, CallKeepsTypes DEF PlayerThere
<1>16. CASE Return(c)
  <2>1. Places(Idle)
    BY IdleTyped DEF Idle
  <2>2. caller' = [caller EXCEPT ![c] = Idle] /\ CallOnly
    BY <1>16 DEF Return
  <2> QED
    BY <1>1, <2>1, <2>2
<1> QED
  BY <1>3, <1>4, <1>5, <1>6, <1>7, <1>8, <1>9, <1>10, <1>11, <1>12, <1>13,
     <1>14, <1>15, <1>16 DEF CallStep

LEMMA TypedNext == Typed /\ [SessionNext]_sessionVars => Typed'
<1> SUFFICES ASSUME Typed, [SessionNext]_sessionVars PROVE Typed'
  OBVIOUS
<1>1. ASSUME NEW s \in Sessions, Run(s) \/ PlaybackEnded(s)
      PROVE  Typed'
  BY <1>1, RunTyped
<1>2. ASSUME NEW c \in PlayCallers, PlayUrl(c) \/ PlayRejected(c)
      PROVE  Typed'
  BY <1>2, CallBeginTyped DEF PlayUrl, PlayRejected, Callers
<1>3. ASSUME NEW c \in UserCallers, UserStop(c) \/ PlayWithVlc(c)
      PROVE  Typed'
  BY <1>3, CallBeginTyped DEF UserStop, PlayWithVlc, Callers
<1>4. ASSUME NEW c \in Callers, CallStep(c)
      PROVE  Typed'
  BY <1>4, CallTyped
<1>5. CASE UNCHANGED sessionVars
  BY <1>5 DEF sessionVars, Typed, SessionTypeOK, InHand, PlayerThere
<1> QED
  BY <1>1, <1>2, <1>3, <1>4, <1>5 DEF SessionNext, Quiescent

LEMMA TypedAlways == SessionSpec => []Typed
BY TypedInit, TypedNext, PTL DEF SessionSpec

(* The controller, the sessions and the callers keep their types, for any  *)
(* number of sessions and callers and whatever steps are slow.             *)
THEOREM SessionTypes == SessionSpec => []SessionTypeOK
<1>1. Typed => SessionTypeOK
  BY DEF Typed
<1> QED
  BY <1>1, TypedAlways, PTL

-----------------------------------------------------------------------------
(* One thread in play.                                                     *)

(* The life of a session: what has not begun has no proxy, what is done    *)
(* has ended.                                                              *)
Lives ==
    \A s \in Sessions :
        /\ session[s].pc \in {"none", "installed"}
               => session[s].proxy = "none" /\ ~session[s].done
        /\ session[s].done => session[s].pc = "ended"

(* Only the thread in play starts sessions.                                *)
UsersStartNone ==
    \A c \in UserCallers :
        /\ caller[c].op # "play"
        /\ caller[c].pc \notin {"install", "launch"}

(* What the thread in play knows of the current session: it has told it to *)
(* stop, and when the wait is over it is not about to build a proxy.       *)
StartPlaced(p) ==
    /\ caller[p].pc \in {"tell", "hush", "await"} => caller[p].s = current
    /\ caller[p].pc \in {"hush", "await", "install"} /\ current # None
           => session[current].stop
    /\ caller[p].pc = "install" /\ current # None => session[current].pc # "build"
    /\ caller[p].pc = "launch" =>
           caller[p].own = current /\ session[current].pc = "installed"

(* The current session has begun, and no other one is to build a proxy. *)
CurrentBuilds ==
    /\ current # None => session[current].pc # "none"
    /\ \A s \in Sessions : session[s].pc = "build" => s = current

OneStarter(p) ==
    Lives /\ UsersStartNone /\ StartPlaced(p) /\ CurrentBuilds /\ Superseded /\ ProxyOwn

LEMMA OneStarterInit ==
    ASSUME NEW p \in PlayCallers, SessionInit
    PROVE  OneStarter(p)
<1>1. Lives /\ Superseded /\ ProxyOwn /\ CurrentBuilds
  BY DEF SessionInit, NewSession, Lives, Superseded, ProxyOwn, CurrentBuilds
<1>2. UsersStartNone /\ StartPlaced(p)
  BY DEF SessionInit, Idle, Callers, UsersStartNone, StartPlaced
<1> QED
  BY <1>1, <1>2 DEF OneStarter

(* A step of a session's thread that leaves the handlers' proxy alone: it  *)
(* takes back no stop, opens no proxy, and goes on to build one only when  *)
(* it has found no stop.                                                   *)
LEMMA RunKeepsStarter ==
    ASSUME NEW p \in PlayCallers, OneStarter(p), Typed,
           NEW s \in Sessions, NEW q \in SessionRecords,
           session' = [session EXCEPT ![s] = q],
           UNCHANGED <<current, handlerProxy, caller>>,
           session[s].pc \notin {"none", "installed"},
           q.pc \notin {"none", "installed"},
           q.pc = "build" => ~session[s].stop,
           session[s].stop => q.stop,
           q.proxy = "open" => session[s].proxy = "open",
           q.done => q.pc = "ended"
    PROVE  OneStarter(p)'
<1>1. session'[s] = q /\ \A t \in Sessions \ {s} : session'[t] = session[t]
  BY DEF Typed, SessionTypeOK
<1>2. current \in Sessions \cup {None} /\ p \in Callers
  BY DEF Typed, SessionTypeOK, Callers
<1>3. Lives'
  BY <1>1 DEF OneStarter, Lives
<1>4. UsersStartNone'
  BY DEF OneStarter, UsersStartNone
<1>5. StartPlaced(p)'
  BY <1>1, <1>2 DEF OneStarter, StartPlaced
<1>6. CurrentBuilds'
  BY <1>1, <1>2 DEF OneStarter, CurrentBuilds, Superseded
<1>7. Superseded'
  BY <1>1 DEF OneStarter, Superseded
<1>8. ProxyOwn'
  BY <1>1, <1>2 DEF OneStarter, ProxyOwn
<1> QED
  BY <1>3, <1>4, <1>5, <1>6, <1>7, <1>8 DEF OneStarter

LEMMA RunGotoStarter ==
    ASSUME NEW p \in PlayCallers, OneStarter(p), Typed,
           NEW s \in Sessions, NEW from \in RunSteps, NEW to \in RunSteps,
           to = "build" => ~session[s].stop,
           RunGoto(s, from, to)
    PROVE  OneStarter(p)'
<1> DEFINE q == [session[s] EXCEPT !.pc = to]
<1>1. session[s] \in SessionRecords /\ session[s].pc = from
  BY DEF Typed, SessionTypeOK, RunGoto
<1>2. ~session[s].done
  BY <1>1 DEF OneStarter, Lives, RunSteps
<1>3. /\ q \in SessionRecords /\ q.pc = to /\ q.stop = session[s].stop
      /\ q.proxy = session[s].proxy /\ q.done = session[s].done
  BY <1>1 DEF SessionRecords, SessionSteps
<1>4. /\ session' = [session EXCEPT ![s] = q]
      /\ UNCHANGED <<current, handlerProxy, caller>>
  BY DEF RunGoto, RunOnly
<1>5. from \notin {"none", "installed"} /\ to \notin {"none", "installed"}
  BY DEF RunSteps
<1> HIDE DEF q
<1> QED
  BY <1>1, <1>2, <1>3, <1>4, <1>5, RunKeepsStarter

(* The step that takes the handlers over is the current session's. *)
LEMMA BuildStarter ==
    ASSUME NEW p \in PlayCallers, OneStarter(p), Typed,
           NEW s \in Sessions, Build(s)
    PROVE  OneStarter(p)'
<1>1. /\ session[s] \in SessionRecords /\ session[s].pc = "build"
      /\ handlerProxy' = s /\ UNCHANGED <<current, caller>>
      /\ \A t \in Sessions \ {s} : session'[t] = session[t]
  BY DEF Typed, SessionTypeOK, Build
<1>2. /\ session'[s].pc \in {"recheck", "fail"}
      /\ session'[s].stop = session[s].stop
      /\ session'[s].done = session[s].done
  BY <1>1 DEF Build, Typed, SessionTypeOK, SessionRecords
<1>3. s = current /\ ~session[s].done
  BY <1>1 DEF OneStarter, CurrentBuilds, Lives
<1>4. Lives'
  BY <1>1, <1>2, <1>3 DEF OneStarter, Lives
<1>5. UsersStartNone'
  BY <1>1 DEF OneStarter, UsersStartNone
<1>6. StartPlaced(p)'
  BY <1>1, <1>2, <1>3 DEF OneStarter, StartPlaced
<1>7. CurrentBuilds'
  BY <1>1, <1>2, <1>3 DEF OneStarter, CurrentBuilds
<1>8. Superseded'
  BY <1>1, <1>2, <1>3 DEF OneStarter, Superseded
<1>9. ProxyOwn'
  BY <1>1, <1>3 DEF ProxyOwn
<1> QED
  BY <1>4, <1>5, <1>6, <1>7, <1>8, <1>9 DEF OneStarter

LEMMA RunStarter ==
    ASSUME NEW p \in PlayCallers, OneStarter(p), Typed,
           NEW s \in Sessions, Run(s) \/ PlaybackEnded(s)
    PROVE  OneStarter(p)'
<1> USE DEF RunSteps
<1>0. session[s] \in SessionRecords
  BY DEF Typed, SessionTypeOK
<1> DEFINE Keeps(q) ==
        /\ q \in SessionRecords
        /\ session' = [session EXCEPT ![s] = q]
        /\ q.pc \notin {"none", "installed", "build"}
        /\ session[s].stop => q.stop
        /\ q.proxy = "open" => session[s].proxy = "open"
        /\ q.done => q.pc = "ended"
<1>1. ASSUME NEW q, Keeps(q), session[s].pc \in RunSteps,
             UNCHANGED <<current, handlerProxy, caller>>
      PROVE  OneStarter(p)'
  BY <1>1, RunKeepsStarter
<1>2. ASSUME session[s].pc \in RunSteps PROVE ~session[s].done
  BY <1>2 DEF OneStarter, Lives
<1>3. CASE Begin(s)
  BY <1>3, RunGotoStarter DEF Begin
<1>4. CASE Probe(s)
  BY <1>4, RunGotoStarter DEF Probe
<1>5. CASE Check(s)
  <2>1. CASE session[s].stop
    BY <1>5, <2>1, RunGotoStarter DEF Check
  <2>2. CASE ~session[s].stop
    BY <1>5, <2>2, RunGotoStarter DEF Check
  <2> QED
    BY <2>1, <2>2
<1>6. CASE Build(s)
  BY <1>6, BuildStarter
<1>7. CASE Recheck(s)
  BY <1>7, RunGotoStarter DEF Recheck
<1>8. CASE Choose(s)
  <2>1. PICK mode \in {"html5", "vlc"} :
            session' = [session EXCEPT ![s].pc = "branch", ![s].mode = mode]
    BY <1>8 DEF Choose
  <2>2. session[s].pc \in RunSteps /\ UNCHANGED <<current, handlerProxy, caller>>
    BY <1>8 DEF Choose, RunOnly
  <2> DEFINE q == [session[s] EXCEPT !.pc = "branch", !.mode = mode]
  <2>3. Keeps(q)
    BY <1>0, <1>2, <2>1, <2>2, ZenonT(40) DEF SessionRecords, SessionSteps
  <2> HIDE DEF q
  <2> QED
    BY <1>1, <2>2, <2>3
<1>9. CASE Branch(s)
  BY <1>9, RunGotoStarter DEF Branch
<1>10. CASE MakePlayer(s)
  <2> DEFINE q == [session[s] EXCEPT !.pc = "play", !.player = "run"]
  <2>1. session[s].pc \in RunSteps /\ UNCHANGED <<current, handlerProxy, caller>>
    BY <1>10 DEF MakePlayer
  <2>2. Keeps(q)
    BY <1>0, <1>2, <1>10, <2>1 DEF MakePlayer, SessionRecords, SessionSteps, Makers
  <2> HIDE DEF q
  <2> QED
    BY <1>1, <2>1, <2>2
<1>11. CASE NoPlayer(s)
  BY <1>11, RunGotoStarter DEF NoPlayer
<1>12. CASE Play(s)
  <2>0. PICK sound \in Sounds :
           session' = [session EXCEPT
               ![s].pc = IF sound = "playing" THEN "ready" ELSE "fail"]
    BY <1>12 DEF Play
  <2> DEFINE q == [session[s] EXCEPT
                       !.pc = IF sound = "playing" THEN "ready" ELSE "fail"]
  <2>1. session[s].pc \in RunSteps /\ UNCHANGED <<current, handlerProxy, caller>>
    BY <1>12 DEF Play
  <2>3. session' = [session EXCEPT ![s] = q]
    BY <2>0
  <2>2. Keeps(q)
    BY <1>0, <1>2, <1>12, <2>1, <2>3 DEF Play, SessionRecords, SessionSteps
  <2> HIDE DEF q
  <2> QED
    BY <1>1, <2>1, <2>2
<1>13. CASE Ready(s)
  <2> DEFINE q == [session[s] EXCEPT !.pc = "monitor", !.ready = TRUE]
  <2>1. session[s].pc \in RunSteps /\ UNCHANGED <<current, handlerProxy, caller>>
    BY <1>13 DEF Ready, RunOnly
  <2>2. Keeps(q)
    BY <1>0, <1>2, <1>13, <2>1 DEF Ready, SessionRecords, SessionSteps
  <2> HIDE DEF q
  <2> QED
    BY <1>1, <2>1, <2>2
<1>14. CASE LeaveMonitor(s)
  BY <1>14, RunGotoStarter DEF LeaveMonitor
<1>15. CASE Fail(s)
  <2> DEFINE q == [session[s] EXCEPT !.pc = "cleanup", !.error = TRUE]
  <2>1. session[s].pc \in RunSteps /\ UNCHANGED <<current, handlerProxy, caller>>
    BY <1>15 DEF Fail, RunOnly
  <2>2. Keeps(q)
    BY <1>0, <1>2, <1>15, <2>1 DEF Fail, SessionRecords, SessionSteps
  <2> HIDE DEF q
  <2> QED
    BY <1>1, <2>1, <2>2
<1>16. CASE Finally(s)
  <2> DEFINE q == [session[s] EXCEPT !.pc = "close", !.ready = TRUE]
  <2>1. session[s].pc \in RunSteps /\ UNCHANGED <<current, handlerProxy, caller>>
    BY <1>16 DEF Finally, RunOnly
  <2>2. Keeps(q)
    BY <1>0, <1>2, <1>16, <2>1 DEF Finally, SessionRecords, SessionSteps
  <2> HIDE DEF q
  <2> QED
    BY <1>1, <2>1, <2>2
<1>17. CASE CloseProxy(s)
  <2> DEFINE q == [session[s] EXCEPT !.pc = "release",
                                     !.proxy = IF @ = "open" THEN "closed" ELSE @]
  <2>1. session[s].pc \in RunSteps /\ UNCHANGED <<current, handlerProxy, caller>>
    BY <1>17 DEF CloseProxy, RunOnly
  <2>2. Keeps(q)
    BY <1>0, <1>2, <1>17, <2>1 DEF CloseProxy, SessionRecords, SessionSteps
  <2> HIDE DEF q
  <2> QED
    BY <1>1, <2>1, <2>2
<1>18. CASE Release(s)
  <2> DEFINE q == [session[s] EXCEPT !.pc = "finish"]
  <2>1. session[s].pc \in RunSteps /\ UNCHANGED <<current, handlerProxy, caller>>
    BY <1>18 DEF Release
  <2>2. Keeps(q)
    BY <1>0, <1>2, <1>18, <2>1 DEF Release, SessionRecords, SessionSteps
  <2> HIDE DEF q
  <2> QED
    BY <1>1, <2>1, <2>2
<1>19. CASE Finish(s)
  <2> DEFINE q == [session[s] EXCEPT !.pc = "ended", !.done = TRUE]
  <2>1. session[s].pc \in RunSteps /\ UNCHANGED <<current, handlerProxy, caller>>
    BY <1>19 DEF Finish, RunOnly
  <2>2. Keeps(q)
    BY <1>0, <1>19 DEF Finish, SessionRecords, SessionSteps
  <2> HIDE DEF q
  <2> QED
    BY <1>1, <2>1, <2>2
<1>20. CASE PlaybackEnded(s)
  <2> DEFINE q == [session[s] EXCEPT !.stop = TRUE]
  <2>1. session[s].pc = "monitor" /\ UNCHANGED <<current, handlerProxy, caller>>
    BY <1>20 DEF PlaybackEnded, RunOnly
  <2>2. Keeps(q)
    BY <1>0, <1>2, <1>20, <2>1 DEF PlaybackEnded, SessionRecords, SessionSteps
  <2> HIDE DEF q
  <2> QED
    BY <1>1, <2>1, <2>2
<1> QED
  BY <1>3, <1>4, <1>5, <1>6, <1>7, <1>8, <1>9, <1>10, <1>11, <1>12, <1>13,
     <1>14, <1>15, <1>16, <1>17, <1>18, <1>19, <1>20 DEF Run

(* A step of a call that takes back no stop and leaves the rest of the     *)
(* sessions' state, the current session and the handlers' proxy alone.     *)
LEMMA CallKeepsStarter ==
    ASSUME NEW p, PlayCallers = {p}, OneStarter(p), Typed,
           NEW c \in Callers, NEW r \in CallRecords,
           caller' = [caller EXCEPT ![c] = r],
           UNCHANGED <<current, handlerProxy>>,
           \A t \in Sessions :
               /\ session'[t].pc = session[t].pc
               /\ session'[t].done = session[t].done
               /\ session'[t].proxy = session[t].proxy
               /\ session[t].stop => session'[t].stop,
           c # p => r.op # "play" /\ r.pc \notin {"install", "launch"},
           c = p =>
               /\ r.pc \in {"tell", "hush", "await"} => r.s = current
               /\ r.pc \in {"hush", "await", "install"} /\ current # None
                      => session'[current].stop
               /\ r.pc = "install" /\ current # None => session[current].pc # "build"
               /\ r.pc # "launch"
    PROVE  OneStarter(p)'
<1>1. /\ current \in Sessions \cup {None} /\ p \in Callers /\ p \notin UserCallers
      /\ caller'[c] = r /\ \A d \in Callers \ {c} : caller'[d] = caller[d]
  BY SessionAssumption DEF Typed, SessionTypeOK, Callers
<1>2. Lives'
  BY DEF OneStarter, Lives
<1>3. UsersStartNone'
  BY <1>1 DEF OneStarter, UsersStartNone, Callers
<1>4. StartPlaced(p)'
  <2>1. CASE c = p
    BY <1>1, <2>1 DEF StartPlaced
  <2>2. CASE c # p
    <3>1. caller'[p] = caller[p]
      BY <1>1, <2>2
    <3>2. StartPlaced(p)
      BY DEF OneStarter
    <3>3. caller[p].pc = "launch" => current \in Sessions
      BY <1>1, <3>2 DEF StartPlaced, Typed, InHand
    <3> QED
      BY <1>1, <3>1, <3>2, <3>3 DEF StartPlaced
  <2> QED
    BY <2>1, <2>2
<1>5. CurrentBuilds'
  BY <1>1 DEF OneStarter, CurrentBuilds
<1>6. Superseded'
  BY DEF OneStarter, Superseded
<1>7. ProxyOwn'
  BY <1>1 DEF OneStarter, ProxyOwn
<1> QED
  BY <1>2, <1>3, <1>4, <1>5, <1>6, <1>7 DEF OneStarter

LEMMA CallBeginStarter ==
    ASSUME NEW p, PlayCallers = {p}, OneStarter(p), Typed,
           NEW c \in Callers, NEW op \in {"play", "stop", "vlc"},
           NEW label \in {"halt", "current", "offer"},
           c # p => op # "play",
           Call(c, op, label)
    PROVE  OneStarter(p)'
<1> DEFINE r == [Idle EXCEPT !.op = op, !.pc = label]
<1>1. r \in CallRecords /\ r.pc = label /\ r.op = op
  BY DEF Idle, CallRecords
<1>2. /\ caller' = [caller EXCEPT ![c] = r]
      /\ UNCHANGED <<current, handlerProxy, session>>
  BY DEF Call
<1> HIDE DEF r
<1> QED
  BY <1>1, <1>2, CallKeepsStarter

(* The new session is the current one, and the one before was told. *)
LEMMA InstallStarter ==
    ASSUME NEW p, PlayCallers = {p}, OneStarter(p), Typed,
           NEW c \in Callers, Install(c)
    PROVE  OneStarter(p)'
<1>1. c = p
  BY DEF OneStarter, UsersStartNone, Install, Callers
<1> DEFINE s == CHOOSE t \in Unused : TRUE
<1>2. s \in Sessions /\ session[s].pc = "none"
  BY DEF Install, Unused
<1>3. /\ caller' = [caller EXCEPT ![p].pc = "launch", ![p].s = s, ![p].own = s]
      /\ session' = [session EXCEPT ![s].pc = "installed"]
      /\ current' = s /\ handlerProxy' = handlerProxy
      /\ caller[p].pc = "install"
  BY <1>1 DEF Install
<1> HIDE DEF s
<1>4. /\ session'[s].pc = "installed" /\ session'[s].stop = session[s].stop
      /\ session'[s].proxy = session[s].proxy /\ session'[s].done = session[s].done
      /\ \A t \in Sessions \ {s} : session'[t] = session[t]
  BY <1>2, <1>3 DEF Typed, SessionTypeOK, SessionRecords
<1>5. /\ caller'[p].pc = "launch" /\ caller'[p].own = s
      /\ \A d \in Callers \ {p} : caller'[d] = caller[d]
  BY <1>1, <1>3 DEF Typed, SessionTypeOK, CallRecords
<1>6. p \notin UserCallers /\ None \notin Sessions
  BY SessionAssumption
<1>7. Lives'
  BY <1>2, <1>4 DEF OneStarter, Lives
<1>8. UsersStartNone'
  BY <1>5, <1>6 DEF OneStarter, UsersStartNone, Callers
<1>9. StartPlaced(p)'
  BY <1>3, <1>4, <1>5 DEF StartPlaced
<1>10. current # None => session[current].stop /\ session[current].pc # "build"
  BY <1>3 DEF OneStarter, StartPlaced
<1>11. CurrentBuilds'
  BY <1>2, <1>3, <1>4, <1>6, <1>10 DEF OneStarter, CurrentBuilds
<1>12. Superseded'
  BY <1>2, <1>3, <1>4, <1>6, <1>10 DEF OneStarter, Superseded
<1>13. ProxyOwn'
  BY <1>2, <1>3, <1>4 DEF OneStarter, Lives, ProxyOwn
<1> QED
  BY <1>7, <1>8, <1>9, <1>11, <1>12, <1>13 DEF OneStarter

(* The thread of the session that was installed begins. *)
LEMMA LaunchStarter ==
    ASSUME NEW p, PlayCallers = {p}, OneStarter(p), Typed,
           NEW c \in Callers, Launch(c)
    PROVE  OneStarter(p)'
<1>1. c = p
  BY DEF OneStarter, UsersStartNone, Launch, Callers
<1> DEFINE s == caller[p].own
<1>2. s \in Sessions /\ s = current /\ session[s].pc = "installed"
  BY <1>1 DEF OneStarter, StartPlaced, Typed, InHand, Launch
<1>3. /\ caller' = [caller EXCEPT ![p].pc = "current"]
      /\ session' = [session EXCEPT ![s].pc = "begin"]
      /\ UNCHANGED <<current, handlerProxy>>
  BY <1>1 DEF Launch
<1> HIDE DEF s
<1>4. /\ session'[s].pc = "begin" /\ session'[s].stop = session[s].stop
      /\ session'[s].proxy = session[s].proxy /\ session'[s].done = session[s].done
      /\ \A t \in Sessions \ {s} : session'[t] = session[t]
  BY <1>2, <1>3 DEF Typed, SessionTypeOK, SessionRecords
<1>5. /\ caller'[p].pc = "current"
      /\ \A d \in Callers \ {p} : caller'[d] = caller[d]
  BY <1>1, <1>3 DEF Typed, SessionTypeOK, CallRecords
<1>6. p \notin UserCallers
  BY SessionAssumption
<1>7. Lives'
  BY <1>2, <1>4 DEF OneStarter, Lives
<1>8. UsersStartNone'
  BY <1>5, <1>6 DEF OneStarter, UsersStartNone, Callers
<1>9. StartPlaced(p)'
  BY <1>5 DEF StartPlaced
<1>10. CurrentBuilds'
  BY <1>2, <1>3, <1>4 DEF OneStarter, CurrentBuilds
<1>11. Superseded'
  BY <1>2, <1>3, <1>4 DEF OneStarter, Superseded
<1>12. ProxyOwn'
  BY <1>2, <1>3, <1>4 DEF OneStarter, Lives, ProxyOwn
<1> QED
  BY <1>7, <1>8, <1>9, <1>10, <1>11, <1>12 DEF OneStarter

LEMMA CallStarter ==
    ASSUME NEW p, PlayCallers = {p}, "build" \notin SlowSteps, OneStarter(p), Typed,
           NEW c \in Callers, CallStep(c)
    PROVE  OneStarter(p)'
<1>0. /\ caller[c] \in CallRecords
      /\ current \in Sessions \cup {None}
      /\ session \in [Sessions -> SessionRecords]
      /\ c # p => /\ caller[c].op # "play"
                  /\ caller[c].pc \notin {"install", "launch"}
  BY DEF Typed, SessionTypeOK, OneStarter, UsersStartNone, Callers
<1> DEFINE Placed(r) ==
        /\ r \in CallRecords
        /\ c # p => r.op # "play" /\ r.pc \notin {"install", "launch"}
        /\ c = p =>
               /\ r.pc \in {"tell", "hush", "await"} => r.s = current
               /\ r.pc \in {"hush", "await", "install"} /\ current # None
                      => session[current].stop
               /\ r.pc = "install" /\ current # None => session[current].pc # "build"
               /\ r.pc # "launch"
<1>1. ASSUME NEW r, Placed(r), caller' = [caller EXCEPT ![c] = r],
             UNCHANGED <<current, handlerProxy, session>>
      PROVE  OneStarter(p)'
  BY <1>1, CallKeepsStarter
<1>2. CASE Halt(c)
  <2> DEFINE r == [caller[c] EXCEPT !.s = current,
          !.pc = IF current # None THEN "tell"
                 ELSE IF caller[c].op = "play" THEN "install" ELSE "answered"]
  <2>1. Placed(r)
    BY <1>0, <1>2 DEF Halt, CallRecords
  <2>2. caller' = [caller EXCEPT ![c] = r] /\ UNCHANGED <<current, handlerProxy, session>>
    BY <1>2 DEF Halt, CallOnly
  <2> HIDE DEF r
  <2> QED
    BY <1>1, <2>1, <2>2
<1>3. CASE Tell(c)
  <2> DEFINE s == caller[c].s
             r == [caller[c] EXCEPT !.pc = "hush"]
  <2>1. s \in Sessions
    BY <1>3 DEF Typed, InHand, Tell
  <2>2. c = p => s = current
    BY <1>3 DEF OneStarter, StartPlaced, Tell
  <2>3. r \in CallRecords /\ r.pc = "hush" /\ r.op = caller[c].op /\ r.s = s
    BY <1>0 DEF CallRecords
  <2>4. /\ caller' = [caller EXCEPT ![c] = r]
        /\ session' = [session EXCEPT ![s].stop = TRUE]
        /\ UNCHANGED <<current, handlerProxy>>
    BY <1>3 DEF Tell
  <2> HIDE DEF r, s
  <2>5. /\ session'[s].stop
        /\ \A t \in Sessions :
              /\ session'[t].pc = session[t].pc
              /\ session'[t].done = session[t].done
              /\ session'[t].proxy = session[t].proxy
              /\ session[t].stop => session'[t].stop
    BY <1>0, <2>1, <2>4 DEF SessionRecords
  <2> QED
    BY <1>0, <2>2, <2>3, <2>4, <2>5, CallKeepsStarter
<1>4. CASE Hush(c)
  <2> DEFINE r == [caller[c] EXCEPT !.pc = "await"]
  <2>1. Placed(r)
    BY <1>0, <1>4 DEF Hush, CallRecords, OneStarter, StartPlaced
  <2>2. caller' = [caller EXCEPT ![c] = r] /\ UNCHANGED <<current, handlerProxy, session>>
    BY <1>4 DEF Hush
  <2> HIDE DEF r
  <2> QED
    BY <1>1, <2>1, <2>2
<1>5. CASE Await(c)
  <2> DEFINE r == [caller[c] EXCEPT
                     !.pc = IF caller[c].op = "play" THEN "install" ELSE "answered"]
  <2>1. c = p => caller[p].s = current /\ (current # None => session[current].stop)
    BY <1>5 DEF Await, OneStarter, StartPlaced
  <2>2. c = p /\ current # None => session[current].pc # "build"
    BY <1>0, <1>5, <2>1 DEF Await, OneStarter, Lives
  <2>3. Placed(r)
    BY <1>0, <2>1, <2>2 DEF CallRecords
  <2>4. caller' = [caller EXCEPT ![c] = r] /\ UNCHANGED <<current, handlerProxy, session>>
    BY <1>5 DEF Await, CallGoto, CallOnly
  <2> HIDE DEF r
  <2> QED
    BY <1>1, <2>3, <2>4
<1>6. CASE Install(c)
  BY <1>6, InstallStarter
<1>7. CASE Launch(c)
  BY <1>7, LaunchStarter
<1>8. CASE Current(c)
  <2> DEFINE r == [caller[c] EXCEPT !.s = current,
                     !.pc = IF current = None THEN "answered" ELSE "wait"]
  <2>1. Placed(r)
    BY <1>0, <1>8 DEF Current, CallRecords
  <2>2. caller' = [caller EXCEPT ![c] = r] /\ UNCHANGED <<current, handlerProxy, session>>
    BY <1>8 DEF Current, CallOnly
  <2> HIDE DEF r
  <2> QED
    BY <1>1, <2>1, <2>2
<1>9. CASE WaitReady(c)
  <2> DEFINE r == [caller[c] EXCEPT !.pc = "answered",
                     !.ok = /\ ~session[caller[c].s].error
                            /\ session[caller[c].s].proxy # "none"]
  <2>1. Placed(r)
    BY <1>0, <1>9 DEF WaitReady, CallRecords
  <2>2. caller' = [caller EXCEPT ![c] = r] /\ UNCHANGED <<current, handlerProxy, session>>
    BY <1>9 DEF WaitReady, CallOnly
  <2> HIDE DEF r
  <2> QED
    BY <1>1, <2>1, <2>2
<1>10. CASE Offer(c)
  <2> DEFINE fit == /\ current # None
                    /\ ~session[current].stop
                    /\ session[current].proxy # "none"
                    /\ session[current].player = None
             r == [caller[c] EXCEPT !.s = current,
                     !.pc = IF fit THEN "mode" ELSE "answered"]
  <2>1. caller' = [caller EXCEPT ![c] = r] /\ UNCHANGED <<current, handlerProxy, session>>
    BY <1>10 DEF Offer, CallOnly
  <2> HIDE DEF fit
  <2>2. Placed(r)
    BY <1>0 DEF CallRecords
  <2> HIDE DEF r
  <2> QED
    BY <1>1, <2>1, <2>2
<1>11. CASE SetMode(c)
  <2> DEFINE s == caller[c].s
             r == [caller[c] EXCEPT !.pc = "make"]
  <2>1. s \in Sessions
    BY <1>11 DEF Typed, InHand, SetMode
  <2>2. r \in CallRecords /\ r.pc = "make" /\ r.op = caller[c].op
    BY <1>0 DEF CallRecords
  <2>3. /\ caller' = [caller EXCEPT ![c] = r]
        /\ session' = [session EXCEPT ![s].mode = "vlc"]
        /\ UNCHANGED <<current, handlerProxy>>
    BY <1>11 DEF SetMode
  <2> HIDE DEF r, s
  <2>4. \A t \in Sessions :
            /\ session'[t].pc = session[t].pc
            /\ session'[t].done = session[t].done
            /\ session'[t].proxy = session[t].proxy
            /\ session[t].stop => session'[t].stop
    BY <1>0, <2>1, <2>3 DEF SessionRecords
  <2> QED
    BY <1>0, <2>2, <2>3, <2>4, CallKeepsStarter
<1>12. CASE FallbackPlayer(c)
  <2> DEFINE s == caller[c].s
             r == [caller[c] EXCEPT !.pc = "handover"]
  <2>1. s \in Sessions
    BY <1>12 DEF Typed, InHand, FallbackPlayer
  <2>2. r \in CallRecords /\ r.pc = "handover" /\ r.op = caller[c].op
    BY <1>0 DEF CallRecords
  <2>3. /\ caller' = [caller EXCEPT ![c] = r]
        /\ session' = [session EXCEPT ![s].player = c]
        /\ UNCHANGED <<current, handlerProxy>>
    BY <1>12 DEF FallbackPlayer
  <2> HIDE DEF r, s
  <2>4. \A t \in Sessions :
            /\ session'[t].pc = session[t].pc
            /\ session'[t].done = session[t].done
            /\ session'[t].proxy = session[t].proxy
            /\ session[t].stop => session'[t].stop
    BY <1>0, <2>1, <2>3 DEF SessionRecords
  <2> QED
    BY <1>0, <2>2, <2>3, <2>4, CallKeepsStarter
<1>13. CASE FallbackFailed(c)
  <2> DEFINE r == [caller[c] EXCEPT !.pc = "answered"]
  <2>1. Placed(r)
    BY <1>0, <1>13 DEF FallbackFailed, CallRecords
  <2>2. caller' = [caller EXCEPT ![c] = r] /\ UNCHANGED <<current, handlerProxy, session>>
    BY <1>13 DEF FallbackFailed, CallGoto, CallOnly
  <2> HIDE DEF r
  <2> QED
    BY <1>1, <2>1, <2>2
<1>14. CASE HandOver(c)
  <2> DEFINE r == [caller[c] EXCEPT !.pc = "answered"]
  <2>1. Placed(r)
    BY <1>0, <1>14 DEF HandOver, CallRecords
  <2>2. caller' = [caller EXCEPT ![c] = r] /\ UNCHANGED <<current, handlerProxy, session>>
    BY <1>14 DEF HandOver
  <2> HIDE DEF r
  <2> QED
    BY <1>1, <2>1, <2>2
<1>15. CASE Return(c)
  <2>1. Placed(Idle)
    BY IdleTyped DEF Idle
  <2>2. caller' = [caller EXCEPT ![c] = Idle] /\ UNCHANGED <<current, handlerProxy, session>>
    BY <1>15 DEF Return, CallOnly
  <2> QED
    BY <1>1, <2>1, <2>2
<1> QED
  BY <1>2, <1>3, <1>4, <1>5, <1>6, <1>7, <1>8, <1>9, <1>10, <1>11, <1>12, <1>13,
     <1>14, <1>15 DEF CallStep

LEMMA OneStarterNext ==
    ASSUME NEW p, PlayCallers = {p}, "build" \notin SlowSteps, OneStarter(p), Typed,
           [SessionNext]_sessionVars
    PROVE  OneStarter(p)'
<1>1. ASSUME NEW s \in Sessions, Run(s) \/ PlaybackEnded(s)
      PROVE  OneStarter(p)'
  BY <1>1, RunStarter
<1>2. ASSUME NEW c \in PlayCallers, PlayUrl(c) \/ PlayRejected(c)
      PROVE  OneStarter(p)'
  BY <1>2, CallBeginStarter DEF PlayUrl, PlayRejected, Callers
<1>3. ASSUME NEW c \in UserCallers, UserStop(c) \/ PlayWithVlc(c)
      PROVE  OneStarter(p)'
  <2>1. CASE UserStop(c)
    BY <2>1, CallBeginStarter DEF UserStop, Callers
  <2>2. CASE PlayWithVlc(c)
    BY <2>2, CallBeginStarter DEF PlayWithVlc, Callers
  <2> QED
    BY <1>3, <2>1, <2>2
<1>4. ASSUME NEW c \in Callers, CallStep(c)
      PROVE  OneStarter(p)'
  BY <1>4, CallStarter
<1>5. CASE UNCHANGED sessionVars
  BY <1>5 DEF sessionVars, OneStarter, Lives, UsersStartNone, StartPlaced,
              CurrentBuilds, Superseded, ProxyOwn
<1> QED
  BY <1>1, <1>2, <1>3, <1>4, <1>5 DEF SessionNext, Quiescent

(* With one thread in play and no wait that expires while a session builds *)
(* its proxy, the handlers answer from the proxy of the current session,   *)
(* however late the sessions given up come to their end.  (Of two plays    *)
(* that overlap each may take the session of the other's start over, and   *)
(* the handlers, MCSessionOrphan.)                                         *)
THEOREM HandlersOwn ==
    ASSUME NEW p, PlayCallers = {p}, "build" \notin SlowSteps
    PROVE  SessionSpec => []ProxyOwn
<1>1. SessionInit => OneStarter(p)
  BY OneStarterInit
<1>2. Typed /\ OneStarter(p) /\ [SessionNext]_sessionVars => OneStarter(p)'
  BY OneStarterNext
<1>3. OneStarter(p) => ProxyOwn
  BY DEF OneStarter
<1> QED
  BY <1>1, <1>2, <1>3, TypedAlways, PTL DEF SessionSpec

-----------------------------------------------------------------------------
(* What a session leaves behind, for any callers.                          *)

VlcStates == {"none", "silent", "playing", "released"}

(* q is a session's record and v its players. *)
Clean(q, v) ==
    LET alone == \A c \in UserCallers : v[c] = "none"
    IN  /\ q.done => q.pc = "ended"
        /\ q.pc \in {"release", "finish", "ended"} => q.proxy # "open"
        /\ q.proxy = "closed" => q.pc \in {"release", "finish", "ended"}
        /\ q.pc \in {"cleanup", "close", "release", "finish", "ended"}
               => q.stop \/ q.error
        /\ q.player \in UserCallers => v[q.player] # "none"
        /\ alone => v["run"] = "none" \/ q.player = "run"
        /\ alone /\ q.pc \in {"finish", "ended"} => v["run"] \in {"none", "released"}

(* A fallback that hands over has made its player, and every session that  *)
(* has been installed but not launched belongs to one call.                *)
EndsClean ==
    /\ \A s \in Sessions : Clean(session[s], vlc[s])
    /\ \A c \in Callers :
           /\ caller[c].pc = "handover"
                  => c \in UserCallers /\ vlc[caller[c].s][c] # "none"
           /\ caller[c].pc = "launch" => session[caller[c].own].pc = "installed"
    /\ \A c, d \in Callers :
           /\ caller[c].pc = "launch" /\ caller[d].pc = "launch"
           /\ caller[c].own = caller[d].own
           => c = d

LEMMA CleanInit == SessionInit => EndsClean
<1> SUFFICES ASSUME SessionInit PROVE EndsClean
  OBVIOUS
<1>1. None \notin UserCallers
  BY SessionAssumption DEF Callers
<1>2. \A s \in Sessions : Clean(session[s], vlc[s])
  BY <1>1 DEF SessionInit, NewSession, Clean, Makers
<1> QED
  BY <1>2 DEF SessionInit, EndsClean, Idle

(* A step of a session's thread: its record becomes r, its players w. *)
LEMMA RunKeepsClean ==
    ASSUME Typed, EndsClean, NEW s \in Sessions, NEW r, NEW w,
           session' = [session EXCEPT ![s] = r],
           vlc' = [vlc EXCEPT ![s] = w],
           \A m \in Makers : vlc[s][m] # "none" => w[m] # "none",
           session[s].pc # "installed",
           Clean(r, w),
           UNCHANGED caller
    PROVE  EndsClean'
<1>1. \A t \in Sessions :
          /\ session'[t] = IF t = s THEN r ELSE session[t]
          /\ vlc'[t] = IF t = s THEN w ELSE vlc[t]
  BY DEF Typed, SessionTypeOK
<1>2. \A t \in Sessions : Clean(session'[t], vlc'[t])
  BY <1>1 DEF EndsClean
<1>3. ASSUME NEW c \in Callers
      PROVE  /\ caller[c].pc = "handover"
                    => c \in UserCallers /\ vlc'[caller[c].s][c] # "none"
             /\ caller[c].pc = "launch" => session'[caller[c].own].pc = "installed"
  <2>1. caller[c].pc = "handover" => caller[c].s \in Sessions
    BY DEF Typed, InHand
  <2>2. caller[c].pc = "launch" => caller[c].own \in Sessions
    BY DEF Typed, InHand
  <2>3. caller[c].pc = "handover" => /\ vlc[caller[c].s][c] # "none"
                                       /\ c \in UserCallers /\ c \in Makers
    BY DEF EndsClean, Makers
  <2>4. caller[c].pc = "launch" => session[caller[c].own].pc = "installed"
    BY DEF EndsClean
  <2> QED
    BY <1>1, <2>1, <2>2, <2>3, <2>4
<1> QED
  BY <1>2, <1>3 DEF EndsClean

LEMMA RunClean ==
    ASSUME Typed, EndsClean, NEW s \in Sessions, Run(s) \/ PlaybackEnded(s)
    PROVE  EndsClean'
<1>0. /\ session[s] \in SessionRecords
      /\ vlc[s] \in [Makers -> VlcStates]
      /\ session[s].player \in Makers \cup {None}
      /\ Clean(session[s], vlc[s])
  BY DEF Typed, SessionTypeOK, SessionRecords, EndsClean, VlcStates
<1>1. "run" \notin UserCallers /\ None \notin UserCallers /\ "run" # None
  BY SessionAssumption DEF Callers, Makers
<1>2. \A r : /\ session' = [session EXCEPT ![s] = r]
             /\ session[s].pc # "installed"
             /\ Clean(r, vlc[s])
             /\ RunOnly
             => EndsClean'
  <2> SUFFICES ASSUME NEW r, session' = [session EXCEPT ![s] = r],
                      session[s].pc # "installed", Clean(r, vlc[s]), RunOnly
               PROVE  EndsClean'
    OBVIOUS
  <2>1. vlc' = [vlc EXCEPT ![s] = vlc[s]] /\ caller' = caller
    BY DEF RunOnly, Typed, SessionTypeOK
  <2> QED
    BY <2>1, RunKeepsClean
<1>3. ASSUME NEW from, NEW to, RunGoto(s, from, to),
             from \notin {"installed", "release", "finish", "ended"},
             to \notin {"close", "release", "finish", "ended"},
             to = "cleanup" => session[s].stop,
             session[s].done => FALSE
      PROVE  EndsClean'
  <2> DEFINE r == [session[s] EXCEPT !.pc = to]
  <2>1. Clean(r, vlc[s])
    BY <1>0, <1>3 DEF Clean, SessionRecords, RunGoto
  <2>2. session' = [session EXCEPT ![s] = r] /\ session[s].pc # "installed" /\ RunOnly
    BY <1>3 DEF RunGoto
  <2> HIDE DEF r
  <2> QED
    BY <1>2, <2>1, <2>2
<1>4. session[s].pc # "ended" => ~session[s].done
  BY <1>0 DEF Clean
<1>5. CASE Begin(s) \/ Probe(s) \/ Check(s) \/ Recheck(s) \/ Branch(s) \/ NoPlayer(s)
           \/ LeaveMonitor(s)
  <2> DEFINE Fine(from, to) ==
          /\ RunGoto(s, from, to)
          /\ from \notin {"installed", "release", "finish", "ended"}
          /\ to \notin {"close", "release", "finish", "ended"}
          /\ to = "cleanup" => session[s].stop
  <2>1. PICK from, to : Fine(from, to)
    <3>1. CASE Check(s)
      BY <3>1 DEF Check
    <3>2. CASE Recheck(s)
      BY <3>2 DEF Recheck
    <3>3. CASE Branch(s)
      BY <3>3 DEF Branch
    <3>4. CASE LeaveMonitor(s)
      BY <3>4 DEF LeaveMonitor
    <3>5. CASE Begin(s) \/ Probe(s) \/ NoPlayer(s)
      BY <3>5 DEF Begin, Probe, NoPlayer
    <3> QED
      BY <1>5, <3>1, <3>2, <3>3, <3>4, <3>5
  <2> QED
    BY <1>3, <1>4, <2>1 DEF RunGoto
<1>6. CASE Build(s)
  <2>1. PICK r \in {[session[s] EXCEPT !.pc = "recheck", !.proxy = "open"],
                    [session[s] EXCEPT !.pc = "fail"]} :
            session' = [session EXCEPT ![s] = r]
    BY <1>6 DEF Build
  <2>2. Clean(r, vlc[s])
    BY <1>0, <1>4, <1>6 DEF Build, Clean, SessionRecords
  <2>3. vlc' = [vlc EXCEPT ![s] = vlc[s]] /\ caller' = caller
    BY <1>6 DEF Build, Typed, SessionTypeOK
  <2> QED
    BY <1>6, <2>1, <2>2, <2>3, RunKeepsClean DEF Build
<1>7. CASE Choose(s)
  <2>1. PICK mode \in {"html5", "vlc"} :
            session' = [session EXCEPT ![s].pc = "branch", ![s].mode = mode]
    BY <1>7 DEF Choose
  <2> DEFINE r == [session[s] EXCEPT !.pc = "branch", !.mode = mode]
  <2>2. Clean(r, vlc[s])
    BY <1>0, <1>4, <1>7 DEF Choose, Clean, SessionRecords
  <2>3. session' = [session EXCEPT ![s] = r]
    BY <2>1
  <2> HIDE DEF r
  <2> QED
    BY <1>2, <1>7, <2>2, <2>3 DEF Choose
<1>8. CASE MakePlayer(s)
  <2> DEFINE r == [session[s] EXCEPT !.pc = "play", !.player = "run"]
             w == [vlc[s] EXCEPT !["run"] = "silent"]
  <2>1. Clean(r, w)
    BY <1>0, <1>1, <1>4, <1>8 DEF MakePlayer, Clean, SessionRecords
  <2>2. \A m \in Makers : vlc[s][m] # "none" => w[m] # "none"
    BY <1>0
  <2>3. session' = [session EXCEPT ![s] = r] /\ vlc' = [vlc EXCEPT ![s] = w]
    BY <1>8 DEF MakePlayer
  <2> HIDE DEF r, w
  <2> QED
    BY <1>8, <2>1, <2>2, <2>3, RunKeepsClean DEF MakePlayer
<1>9. CASE Play(s)
  <2>0. PICK sound \in Sounds :
           /\ session' = [session EXCEPT
                  ![s].pc = IF sound = "playing" THEN "ready" ELSE "fail"]
           /\ vlc' = [vlc EXCEPT ![s][session[s].player] = sound]
    BY <1>9 DEF Play
  <2> DEFINE r == [session[s] EXCEPT
                       !.pc = IF sound = "playing" THEN "ready" ELSE "fail"]
             p == session[s].player
             w == [vlc[s] EXCEPT ![p] = sound]
  <2>1. p \in Makers
    BY <1>0, <1>9 DEF Play, Typed, PlayerThere
  <2>2. Clean(r, w)
    BY <1>0, <1>1, <1>4, <1>9, <2>1 DEF Play, Clean, SessionRecords, Makers, Sounds
  <2>3. \A m \in Makers : vlc[s][m] # "none" => w[m] # "none"
    BY <1>0 DEF Sounds
  <2>4. session' = [session EXCEPT ![s] = r] /\ vlc' = [vlc EXCEPT ![s] = w]
    BY <2>0
  <2> HIDE DEF r, w, p
  <2> QED
    BY <1>9, <2>2, <2>3, <2>4, RunKeepsClean DEF Play
<1>10. CASE Ready(s)
  <2> DEFINE r == [session[s] EXCEPT !.pc = "monitor", !.ready = TRUE]
  <2>1. Clean(r, vlc[s])
    BY <1>0, <1>4, <1>10 DEF Ready, Clean, SessionRecords
  <2>2. session' = [session EXCEPT ![s] = r] /\ session[s].pc # "installed" /\ RunOnly
    BY <1>0, <1>10 DEF Ready, Clean, SessionRecords
  <2> HIDE DEF r
  <2> QED
    BY <1>2, <2>1, <2>2
<1>11. CASE Fail(s)
  <2> DEFINE r == [session[s] EXCEPT !.pc = "cleanup", !.error = TRUE]
  <2>1. Clean(r, vlc[s])
    BY <1>0, <1>4, <1>11 DEF Fail, Clean, SessionRecords
  <2>2. session' = [session EXCEPT ![s] = r] /\ session[s].pc # "installed" /\ RunOnly
    BY <1>0, <1>11 DEF Fail, Clean, SessionRecords
  <2> HIDE DEF r
  <2> QED
    BY <1>2, <2>1, <2>2
<1>12. CASE Finally(s)
  <2> DEFINE r == [session[s] EXCEPT !.pc = "close", !.ready = TRUE]
  <2>1. Clean(r, vlc[s])
    BY <1>0, <1>4, <1>12 DEF Finally, Clean, SessionRecords
  <2>2. session' = [session EXCEPT ![s] = r] /\ session[s].pc # "installed" /\ RunOnly
    BY <1>0, <1>12 DEF Finally, Clean, SessionRecords
  <2> HIDE DEF r
  <2> QED
    BY <1>2, <2>1, <2>2
<1>13. CASE CloseProxy(s)
  <2> DEFINE r == [session[s] EXCEPT !.pc = "release",
                                     !.proxy = IF @ = "open" THEN "closed" ELSE @]
  <2>1. Clean(r, vlc[s])
    BY <1>0, <1>4, <1>13 DEF CloseProxy, Clean, SessionRecords
  <2>2. session' = [session EXCEPT ![s] = r] /\ session[s].pc # "installed" /\ RunOnly
    BY <1>0, <1>13 DEF CloseProxy, Clean, SessionRecords
  <2> HIDE DEF r
  <2> QED
    BY <1>2, <2>1, <2>2
<1>14. CASE Finish(s)
  <2> DEFINE r == [session[s] EXCEPT !.pc = "ended", !.done = TRUE]
  <2>1. Clean(r, vlc[s])
    BY <1>0, <1>4, <1>14 DEF Finish, Clean, SessionRecords
  <2>2. session' = [session EXCEPT ![s] = r] /\ session[s].pc # "installed" /\ RunOnly
    BY <1>0, <1>14 DEF Finish, Clean, SessionRecords
  <2> HIDE DEF r
  <2> QED
    BY <1>2, <2>1, <2>2
<1>15. CASE PlaybackEnded(s)
  <2> DEFINE r == [session[s] EXCEPT !.stop = TRUE]
  <2>1. Clean(r, vlc[s])
    BY <1>0, <1>4, <1>15 DEF PlaybackEnded, Clean, SessionRecords
  <2>2. session' = [session EXCEPT ![s] = r] /\ session[s].pc # "installed" /\ RunOnly
    BY <1>0, <1>15 DEF PlaybackEnded, Clean, SessionRecords
  <2> HIDE DEF r
  <2> QED
    BY <1>2, <2>1, <2>2
<1>16. CASE Release(s)
  <2> DEFINE r == [session[s] EXCEPT !.pc = "finish"]
             p == session[s].player
             w == IF p = None THEN vlc[s] ELSE [vlc[s] EXCEPT ![p] = "released"]
  <2>1. Clean(r, w)
    <3>1. CASE p = None
      BY <1>0, <1>1, <1>4, <1>16, <3>1 DEF Release, Clean, SessionRecords
    <3>2. CASE p # None
      BY <1>0, <1>1, <1>4, <1>16, <3>2 DEF Release, Clean, SessionRecords, Makers
    <3> QED
      BY <3>1, <3>2
  <2>2. \A m \in Makers : vlc[s][m] # "none" => w[m] # "none"
    BY <1>0
  <2>3. session' = [session EXCEPT ![s] = r] /\ vlc' = [vlc EXCEPT ![s] = w]
    BY <1>16 DEF Release, Typed, SessionTypeOK
  <2> HIDE DEF r, w, p
  <2> QED
    BY <1>16, <2>1, <2>2, <2>3, RunKeepsClean DEF Release
<1> QED
  BY <1>5, <1>6, <1>7, <1>8, <1>9, <1>10, <1>11, <1>12, <1>13, <1>14, <1>15, <1>16
     DEF Run

(* A step of a call that installs no session and launches none: sessions   *)
(* keep their step, and no player that was made is unmade.                 *)
LEMMA CallKeepsClean ==
    ASSUME Typed, EndsClean, NEW c \in Callers, NEW r,
           caller' = [caller EXCEPT ![c] = r],
           r.pc # "launch",
           r.pc = "handover" => c \in UserCallers /\ vlc'[r.s][c] # "none",
           \A s \in Sessions :
               /\ session'[s].pc = session[s].pc
               /\ Clean(session'[s], vlc'[s])
               /\ \A m \in Makers : vlc[s][m] # "none" => vlc'[s][m] # "none"
    PROVE  EndsClean'
<1>1. \A d \in Callers : caller'[d] = IF d = c THEN r ELSE caller[d]
  BY DEF Typed, SessionTypeOK
<1>2. ASSUME NEW d \in Callers, d # c
      PROVE  /\ caller'[d].pc = "handover"
                    => d \in UserCallers /\ vlc'[caller'[d].s][d] # "none"
             /\ caller'[d].pc = "launch" => session'[caller'[d].own].pc = "installed"
  <2>1. /\ caller[d].pc = "handover" => caller[d].s \in Sessions
        /\ caller[d].pc = "launch" => caller[d].own \in Sessions
    BY DEF Typed, InHand
  <2>2. /\ caller[d].pc = "handover" => d \in UserCallers /\ vlc[caller[d].s][d] # "none"
        /\ caller[d].pc = "launch" => session[caller[d].own].pc = "installed"
    BY DEF EndsClean
  <2>3. d \in UserCallers => d \in Makers
    BY DEF Makers
  <2> QED
    BY <1>1, <1>2, <2>1, <2>2, <2>3
<1>3. \A d \in Callers :
          /\ caller'[d].pc = "handover"
                => d \in UserCallers /\ vlc'[caller'[d].s][d] # "none"
          /\ caller'[d].pc = "launch" => session'[caller'[d].own].pc = "installed"
  BY <1>1, <1>2
<1>4. \A d, e \in Callers :
          /\ caller'[d].pc = "launch" /\ caller'[e].pc = "launch"
          /\ caller'[d].own = caller'[e].own
          => d = e
  BY <1>1 DEF EndsClean
<1> QED
  BY <1>3, <1>4 DEF EndsClean

LEMMA CallOnlyClean ==
    ASSUME Typed, EndsClean, NEW c \in Callers, NEW r,
           caller' = [caller EXCEPT ![c] = r],
           r.pc \notin {"launch", "handover"},
           UNCHANGED <<session, vlc>>
    PROVE  EndsClean'
BY CallKeepsClean DEF EndsClean

LEMMA InstallClean ==
    ASSUME Typed, EndsClean, NEW c \in Callers, Install(c)
    PROVE  EndsClean'
<1> DEFINE s == CHOOSE t \in Unused : TRUE
           r == [caller[c] EXCEPT !.pc = "launch", !.s = s, !.own = s]
           q == [session[s] EXCEPT !.pc = "installed"]
<1>1. s \in Sessions /\ session[s].pc = "none"
  BY DEF Install, Unused
<1>2. /\ caller' = [caller EXCEPT ![c] = r]
      /\ session' = [session EXCEPT ![s] = q]
      /\ vlc' = vlc
  BY DEF Install
<1> HIDE DEF s
<1>3. /\ caller[c] \in CallRecords /\ session[s] \in SessionRecords
      /\ Clean(session[s], vlc[s])
  BY <1>1 DEF Typed, SessionTypeOK, EndsClean
<1>4. r.pc = "launch" /\ r.own = s
  BY <1>3 DEF CallRecords
<1>5. q.pc = "installed" /\ Clean(q, vlc[s])
  BY <1>1, <1>3 DEF SessionRecords, Clean
<1> HIDE DEF r, q
<1>6. /\ \A d \in Callers : caller'[d] = IF d = c THEN r ELSE caller[d]
      /\ \A t \in Sessions : session'[t] = IF t = s THEN q ELSE session[t]
  BY <1>1, <1>2 DEF Typed, SessionTypeOK
<1>7. \A t \in Sessions : Clean(session'[t], vlc'[t])
  BY <1>2, <1>5, <1>6 DEF EndsClean
<1>8. \A d \in Callers \ {c} : caller[d].pc = "launch"
          => caller[d].own # s /\ session'[caller[d].own].pc = "installed"
  BY <1>1, <1>6 DEF EndsClean, Typed, InHand
<1> QED
  BY <1>1, <1>2, <1>4, <1>5, <1>6, <1>7, <1>8 DEF EndsClean

(* The session launched is no other call's. *)
LEMMA LaunchClean ==
    ASSUME Typed, EndsClean, NEW c \in Callers, Launch(c)
    PROVE  EndsClean'
<1> DEFINE s == caller[c].own
           r == [caller[c] EXCEPT !.pc = "current"]
           q == [session[s] EXCEPT !.pc = "begin"]
<1>1. s \in Sessions /\ session[s].pc = "installed"
  BY DEF Launch, Typed, InHand, EndsClean
<1>2. /\ caller' = [caller EXCEPT ![c] = r]
      /\ session' = [session EXCEPT ![s] = q]
      /\ vlc' = vlc
  BY DEF Launch
<1>3. \A d \in Callers \ {c} : caller[d].pc = "launch" => caller[d].own # s
  BY DEF Launch, EndsClean
<1>4. caller[c] \in CallRecords
  BY DEF Typed, SessionTypeOK
<1>5. r.pc = "current"
  BY <1>4 DEF CallRecords
<1> HIDE DEF s, r
<1>6. session[s] \in SessionRecords /\ Clean(session[s], vlc[s])
  BY <1>1 DEF Typed, SessionTypeOK, EndsClean
<1>7. Clean(q, vlc[s])
  BY <1>1, <1>6 DEF SessionRecords, Clean
<1> HIDE DEF q
<1>8. /\ \A d \in Callers : caller'[d] = IF d = c THEN r ELSE caller[d]
      /\ \A t \in Sessions : session'[t] = IF t = s THEN q ELSE session[t]
  BY <1>1, <1>2 DEF Typed, SessionTypeOK
<1>9. \A t \in Sessions : Clean(session'[t], vlc'[t])
  BY <1>2, <1>7, <1>8 DEF EndsClean
<1>10. \A d \in Callers \ {c} : caller[d].pc = "launch"
           => session'[caller[d].own].pc = "installed"
  BY <1>3, <1>8 DEF EndsClean, Typed, InHand
<1> QED
  BY <1>2, <1>5, <1>8, <1>9, <1>10 DEF EndsClean

LEMMA CallClean ==
    ASSUME Typed, EndsClean, NEW c \in Callers, CallStep(c)
    PROVE  EndsClean'
<1>0. /\ caller[c] \in CallRecords
      /\ session \in [Sessions -> SessionRecords]
      /\ vlc \in [Sessions -> [Makers -> VlcStates]]
      /\ caller \in [Callers -> CallRecords]
      /\ \A s \in Sessions : Clean(session[s], vlc[s])
  BY DEF Typed, SessionTypeOK, EndsClean, VlcStates
<1>1. CASE Halt(c) \/ Await(c) \/ Current(c) \/ WaitReady(c) \/ Offer(c)
           \/ FallbackFailed(c) \/ Return(c)
  <2>1. UNCHANGED <<session, vlc>>
    BY <1>1 DEF Halt, Await, Current, WaitReady, Offer, FallbackFailed, Return,
                CallGoto, CallOnly
  <2>2. /\ caller' = [caller EXCEPT ![c] = caller'[c]]
        /\ caller'[c].pc \notin {"launch", "handover"}
    <3>1. CASE Halt(c)
      BY <1>0, <3>1 DEF Halt, CallRecords
    <3>2. CASE Await(c)
      BY <1>0, <3>2 DEF Await, CallGoto, CallRecords
    <3>3. CASE Current(c)
      BY <1>0, <3>3 DEF Current, CallRecords
    <3>4. CASE WaitReady(c)
      BY <1>0, <3>4 DEF WaitReady, CallRecords
    <3>5. CASE Offer(c)
      <4> DEFINE fit == /\ current # None
                        /\ ~session[current].stop
                        /\ session[current].proxy # "none"
                        /\ session[current].player = None
      <4>1. caller' = [caller EXCEPT ![c].s = current,
                                     ![c].pc = IF fit THEN "mode" ELSE "answered"]
        BY <3>5 DEF Offer
      <4> HIDE DEF fit
      <4> QED
        BY <1>0, <4>1 DEF CallRecords
    <3>6. CASE FallbackFailed(c)
      BY <1>0, <3>6 DEF FallbackFailed, CallGoto, CallRecords
    <3>7. CASE Return(c)
      BY <1>0, <3>7 DEF Return, Idle
    <3> QED
      BY <1>1, <3>1, <3>2, <3>3, <3>4, <3>5, <3>6, <3>7
  <2> QED
    BY <2>1, <2>2, CallOnlyClean
<1>2. CASE Install(c)
  BY <1>2, InstallClean
<1>3. CASE Launch(c)
  BY <1>3, LaunchClean
<1>4. ASSUME NEW s \in Sessions, NEW q \in SessionRecords, NEW w \in [Makers -> VlcStates],
             session' = [session EXCEPT ![s] = q], vlc' = [vlc EXCEPT ![s] = w],
             q.pc = session[s].pc, Clean(q, w),
             \A m \in Makers : vlc[s][m] # "none" => w[m] # "none",
             NEW r, caller' = [caller EXCEPT ![c] = r], r.pc # "launch",
             r.pc = "handover" => c \in UserCallers /\ r.s = s /\ w[c] # "none"
      PROVE  EndsClean'
  <2>1. \A t \in Sessions : /\ session'[t] = IF t = s THEN q ELSE session[t]
                            /\ vlc'[t] = IF t = s THEN w ELSE vlc[t]
    BY <1>0, <1>4
  <2>2. \A t \in Sessions :
            /\ session'[t].pc = session[t].pc
            /\ Clean(session'[t], vlc'[t])
            /\ \A m \in Makers : vlc[t][m] # "none" => vlc'[t][m] # "none"
    BY <1>0, <1>4, <2>1
  <2>3. r.pc = "handover" => c \in UserCallers /\ vlc'[r.s][c] # "none"
    BY <1>4, <2>1
  <2> QED
    BY <1>4, <2>2, <2>3, CallKeepsClean
<1>5. "run" \notin UserCallers /\ None \notin UserCallers /\ "run" # None
  BY SessionAssumption DEF Callers, Makers
<1>6. CASE Tell(c) \/ SetMode(c)
  <2> DEFINE s == caller[c].s
  <2>1. s \in Sessions
    BY <1>6 DEF Tell, SetMode, Typed, InHand
  <2>2. PICK q \in {[session[s] EXCEPT !.stop = TRUE], [session[s] EXCEPT !.mode = "vlc"]} :
            session' = [session EXCEPT ![s] = q]
    BY <1>6 DEF Tell, SetMode
  <2>3. vlc' = [vlc EXCEPT ![s] = vlc[s]]
    BY <1>0, <1>6 DEF Tell, SetMode
  <2>4. /\ caller' = [caller EXCEPT ![c] = caller'[c]]
        /\ caller'[c].pc \notin {"launch", "handover"}
    BY <1>0, <1>6 DEF Tell, SetMode, CallRecords
  <2> HIDE DEF s
  <2>5. session[s] \in SessionRecords /\ Clean(session[s], vlc[s])
    BY <1>0, <2>1
  <2>6. q \in SessionRecords /\ q.pc = session[s].pc /\ Clean(q, vlc[s])
    <3>1. q \in SessionRecords /\ q.pc = session[s].pc
      BY <2>2, <2>5 DEF SessionRecords
    <3>2. /\ q.done = session[s].done /\ q.proxy = session[s].proxy
          /\ q.player = session[s].player /\ q.error = session[s].error
          /\ session[s].stop => q.stop
      BY <2>2, <2>5 DEF SessionRecords
    <3> QED
      BY <2>5, <3>1, <3>2 DEF Clean
  <2> QED
    BY <1>0, <1>4, <2>1, <2>2, <2>3, <2>4, <2>6
<1>7. CASE Hush(c)
  <2> DEFINE s == caller[c].s
             p == session[s].player
             w == IF p # None /\ vlc[s][p] = "playing"
                  THEN [vlc[s] EXCEPT ![p] = "silent"] ELSE vlc[s]
  <2>1. s \in Sessions
    BY <1>7 DEF Hush, Typed, InHand
  <2>2. session' = [session EXCEPT ![s] = session[s]] /\ vlc' = [vlc EXCEPT ![s] = w]
    BY <1>0, <1>7 DEF Hush
  <2>3. /\ caller' = [caller EXCEPT ![c] = caller'[c]]
        /\ caller'[c].pc \notin {"launch", "handover"}
    BY <1>0, <1>7 DEF Hush, CallRecords
  <2> HIDE DEF s
  <2>4. /\ session[s] \in SessionRecords /\ Clean(session[s], vlc[s])
        /\ vlc[s] \in [Makers -> VlcStates] /\ p \in Makers \cup {None}
    BY <1>0, <2>1 DEF SessionRecords
  <2>5. w \in [Makers -> VlcStates] /\ \A m \in Makers : vlc[s][m] # "none" => w[m] # "none"
    BY <2>4 DEF VlcStates
  <2>6. Clean(session[s], w)
    BY <1>5, <2>4 DEF Clean, Makers
  <2> HIDE DEF w, p
  <2> QED
    BY <1>0, <1>4, <2>1, <2>2, <2>3, <2>4, <2>5, <2>6
<1>8. CASE FallbackPlayer(c)
  <2> DEFINE s == caller[c].s
             q == [session[s] EXCEPT !.player = c]
             w == [vlc[s] EXCEPT ![c] = "silent"]
             r == [caller[c] EXCEPT !.pc = "handover"]
  <2>1. s \in Sessions /\ c \in UserCallers /\ c \in Makers
    BY <1>8 DEF FallbackPlayer, Typed, InHand, Makers
  <2>2. /\ session' = [session EXCEPT ![s] = q] /\ vlc' = [vlc EXCEPT ![s] = w]
        /\ caller' = [caller EXCEPT ![c] = r]
    BY <1>8 DEF FallbackPlayer
  <2>3. r.pc = "handover" /\ r.s = s
    BY <1>0 DEF CallRecords
  <2> HIDE DEF s, r
  <2>4. /\ session[s] \in SessionRecords /\ Clean(session[s], vlc[s])
        /\ vlc[s] \in [Makers -> VlcStates]
    BY <1>0, <2>1
  <2>5. /\ w \in [Makers -> VlcStates] /\ w[c] # "none"
        /\ \A m \in Makers : vlc[s][m] # "none" => w[m] # "none"
    BY <2>1, <2>4 DEF VlcStates
  <2>6. q \in SessionRecords /\ q.pc = session[s].pc /\ Clean(q, w)
    BY <1>5, <2>1, <2>4 DEF Clean, SessionRecords
  <2>7. r.pc = "handover" => c \in UserCallers /\ r.s = s /\ w[c] # "none"
    BY <2>1, <2>3, <2>5
  <2>8. r.pc # "launch"
    BY <2>3
  <2> HIDE DEF w, q
  <2> QED
    BY <1>4, <2>1, <2>2, <2>5, <2>6, <2>7, <2>8
<1>9. CASE HandOver(c)
  <2> DEFINE s == caller[c].s
             p == session[s].player
  <2>0. PICK sound \in Sounds :
           vlc' = IF vlc[s][p] = "released" THEN vlc
                  ELSE [vlc EXCEPT ![s][p] = sound]
    BY <1>9 DEF HandOver
  <2> DEFINE w == IF vlc[s][p] = "released" THEN vlc[s] ELSE [vlc[s] EXCEPT ![p] = sound]
  <2>1. s \in Sessions /\ p # None /\ c \in UserCallers /\ vlc[s][c] # "none" /\ c \in Makers
    BY <1>9 DEF HandOver, Typed, InHand, EndsClean, Makers
  <2>2. session' = [session EXCEPT ![s] = session[s]] /\ vlc' = [vlc EXCEPT ![s] = w]
    BY <1>0, <1>9, <2>0 DEF HandOver
  <2>3. /\ caller' = [caller EXCEPT ![c] = caller'[c]]
        /\ caller'[c].pc \notin {"launch", "handover"}
    BY <1>0, <1>9 DEF HandOver, CallRecords
  <2> HIDE DEF s
  <2>4. /\ session[s] \in SessionRecords /\ Clean(session[s], vlc[s])
        /\ vlc[s] \in [Makers -> VlcStates] /\ p \in Makers
    BY <1>0, <2>1 DEF SessionRecords
  <2>5. /\ w \in [Makers -> VlcStates]
        /\ \A m \in Makers : vlc[s][m] # "none" => w[m] # "none"
    BY <2>4 DEF VlcStates, Sounds
  <2>6. Clean(session[s], w)
    BY <1>5, <2>1, <2>4 DEF Clean, Makers, Sounds
  <2> HIDE DEF w, p
  <2> QED
    BY <1>0, <1>4, <2>1, <2>2, <2>3, <2>4, <2>5, <2>6
<1> QED
  BY <1>1, <1>2, <1>3, <1>6, <1>7, <1>8, <1>9 DEF CallStep

LEMMA EndsCleanNext == Typed /\ EndsClean /\ [SessionNext]_sessionVars => EndsClean'
<1> SUFFICES ASSUME Typed, EndsClean, [SessionNext]_sessionVars PROVE EndsClean'
  OBVIOUS
<1>1. ASSUME NEW c \in Callers, NEW op, NEW label, label # "launch", label # "handover",
             Call(c, op, label)
      PROVE  EndsClean'
  <2> DEFINE r == [Idle EXCEPT !.op = op, !.pc = label]
  <2>1. caller' = [caller EXCEPT ![c] = r] /\ UNCHANGED <<session, vlc>>
    BY <1>1 DEF Call
  <2>2. r.pc = label
    BY DEF Idle
  <2> HIDE DEF r
  <2> QED
    BY <1>1, <2>1, <2>2, CallOnlyClean
<1>2. ASSUME NEW s \in Sessions, Run(s) \/ PlaybackEnded(s) PROVE EndsClean'
  BY <1>2, RunClean
<1>3. ASSUME NEW c \in PlayCallers, PlayUrl(c) \/ PlayRejected(c) PROVE EndsClean'
  BY <1>1, <1>3 DEF PlayUrl, PlayRejected, Callers
<1>4. ASSUME NEW c \in UserCallers, UserStop(c) \/ PlayWithVlc(c) PROVE EndsClean'
  BY <1>1, <1>4 DEF UserStop, PlayWithVlc, Callers
<1>5. ASSUME NEW c \in Callers, CallStep(c) PROVE EndsClean'
  BY <1>5, CallClean
<1>6. CASE UNCHANGED sessionVars
  BY <1>6 DEF sessionVars, EndsClean
<1> QED
  BY <1>2, <1>3, <1>4, <1>5, <1>6 DEF SessionNext, Quiescent

(* A session that has ended and was never handed over to VLC has closed    *)
(* its proxy and released its player, whichever step a stop, a failure or  *)
(* another call met it in: _cleanup, for any number of sessions and of     *)
(* threads in play, stop and play_with_vlc, and any waits that expire.     *)
THEOREM EndsWithNothing == SessionSpec => []LeavesNothing
<1>1. EndsClean => LeavesNothing
  BY DEF EndsClean, Clean, LeavesNothing
<1> QED
  BY <1>1, CleanInit, EndsCleanNext, TypedAlways, PTL DEF SessionSpec

-----------------------------------------------------------------------------
(* What play answers.                                                      *)

(* Only the thread in play starts sessions, so the current session is the  *)
(* one it has started until it has taken hold of it; and a call is told    *)
(* nothing before it is answered.                                          *)
OwnInHand(p) ==
    /\ \A c \in Callers \ {p} : caller[c].op # "play" /\ caller[c].pc # "install"
    /\ caller[p].pc \in {"launch", "current"} /\ caller[p].own # None
           => current = caller[p].own
    /\ caller[p].pc = "wait" /\ caller[p].own # None => caller[p].s = caller[p].own
    /\ caller[p].ok => caller[p].pc = "answered"

LEMMA OwnInHandNext ==
    ASSUME NEW p, PlayCallers = {p}, Typed, OwnInHand(p), [SessionNext]_sessionVars
    PROVE  OwnInHand(p)'
<1>0. /\ caller \in [Callers -> CallRecords]
      /\ p \in Callers /\ p \notin UserCallers
      /\ \A c \in Callers : c # p => c \in UserCallers
  BY SessionAssumption DEF Typed, SessionTypeOK, Callers
<1> DEFINE Placed(c, r) ==
        /\ c # p => r.op # "play" /\ r.pc # "install"
        /\ c = p => /\ r.pc \in {"launch", "current"} /\ r.own # None => current' = r.own
                    /\ r.pc = "wait" /\ r.own # None => r.s = r.own
                    /\ r.ok => r.pc = "answered"
<1>1. ASSUME NEW c \in Callers, caller' = [caller EXCEPT ![c] = caller'[c]],
             Placed(c, caller'[c]), c # p => current' = current
      PROVE  OwnInHand(p)'
  BY <1>0, <1>1 DEF OwnInHand
<1>2. ASSUME NEW c \in Callers, CallStep(c)
      PROVE  OwnInHand(p)'
  <2>0. /\ caller[c] \in CallRecords
        /\ c # p => caller[c].op # "play" /\ caller[c].pc # "install"
        /\ c = p =>
            /\ caller[c].pc \in {"launch", "current"} /\ caller[c].own # None
                   => current = caller[c].own
            /\ caller[c].pc = "wait" /\ caller[c].own # None => caller[c].s = caller[c].own
            /\ caller[c].ok => caller[c].pc = "answered"
    BY <1>0 DEF OwnInHand
  <2>1. CASE Halt(c)
    BY <1>0, <1>1, <2>0, <2>1 DEF Halt, CallOnly, CallRecords
  <2>2. CASE Tell(c)
    BY <1>0, <1>1, <2>0, <2>2 DEF Tell, CallRecords
  <2>3. CASE Hush(c)
    BY <1>0, <1>1, <2>0, <2>3 DEF Hush, CallRecords
  <2>4. CASE Await(c)
    BY <1>0, <1>1, <2>0, <2>4 DEF Await, CallGoto, CallOnly, CallRecords
  <2>5. CASE Install(c)
    BY <1>0, <1>1, <2>0, <2>5 DEF Install, CallRecords
  <2>6. CASE Launch(c)
    BY <1>0, <1>1, <2>0, <2>6 DEF Launch, CallRecords
  <2>7. CASE Current(c)
    BY <1>0, <1>1, <2>0, <2>7 DEF Current, CallOnly, CallRecords
  <2>8. CASE WaitReady(c)
    BY <1>0, <1>1, <2>0, <2>8 DEF WaitReady, CallOnly, CallRecords
  <2>9. CASE Offer(c)
    BY <1>0, <1>1, <2>0, <2>9 DEF Offer, CallOnly, CallRecords
  <2>10. CASE SetMode(c)
    BY <1>0, <1>1, <2>0, <2>10 DEF SetMode, CallRecords
  <2>11. CASE FallbackPlayer(c)
    BY <1>0, <1>1, <2>0, <2>11 DEF FallbackPlayer, CallRecords
  <2>12. CASE FallbackFailed(c)
    BY <1>0, <1>1, <2>0, <2>12 DEF FallbackFailed, CallGoto, CallOnly, CallRecords
  <2>13. CASE HandOver(c)
    BY <1>0, <1>1, <2>0, <2>13 DEF HandOver, CallRecords
  <2>14. CASE Return(c)
    BY <1>0, <1>1, <2>0, <2>14 DEF Return, CallOnly, Idle
  <2> QED
    BY <1>2, <2>1, <2>2, <2>3, <2>4, <2>5, <2>6, <2>7, <2>8, <2>9, <2>10, <2>11,
       <2>12, <2>13, <2>14 DEF CallStep
<1>3. ASSUME NEW c \in Callers, NEW op, NEW label, Call(c, op, label),
             label \in {"halt", "current", "offer"}, c # p => op # "play"
      PROVE  OwnInHand(p)'
  BY <1>0, <1>1, <1>3 DEF Call, Idle
<1>4. ASSUME NEW s \in Sessions, Run(s) \/ PlaybackEnded(s)
      PROVE  OwnInHand(p)'
  <2>1. UNCHANGED <<caller, current>>
    BY <1>4 DEF Run, Begin, Probe, Check, Build, Recheck, Choose, Branch, MakePlayer,
                NoPlayer, Play, Ready, LeaveMonitor, Fail, Finally, CloseProxy, Release,
                Finish, PlaybackEnded, RunGoto, RunOnly
  <2> QED
    BY <2>1 DEF OwnInHand
<1>5. ASSUME NEW c \in PlayCallers, PlayUrl(c) \/ PlayRejected(c) PROVE OwnInHand(p)'
  BY <1>3, <1>5 DEF PlayUrl, PlayRejected, Callers
<1>6. ASSUME NEW c \in UserCallers, UserStop(c) \/ PlayWithVlc(c) PROVE OwnInHand(p)'
  <2>1. c \in Callers /\ c # p
    BY <1>0 DEF Callers
  <2>2. CASE UserStop(c)
    BY <1>3, <2>1, <2>2 DEF UserStop
  <2>3. CASE PlayWithVlc(c)
    BY <1>3, <2>1, <2>3 DEF PlayWithVlc
  <2> QED
    BY <1>6, <2>2, <2>3
<1>7. CASE UNCHANGED sessionVars
  BY <1>7 DEF sessionVars, OwnInHand
<1> QED
  BY <1>2, <1>4, <1>5, <1>6, <1>7 DEF SessionNext, Quiescent

(* An ok answer comes from WaitReady: the session is the one this play has *)
(* started, nothing has gone wrong in it, and its proxy was built; it can  *)
(* only have been closed since by a cleanup, which nothing but a stop      *)
(* leads to.                                                               *)
LEMMA AnswerStep ==
    ASSUME NEW p, PlayCallers = {p}, Typed, EndsClean, OwnInHand(p),
           [SessionNext]_sessionVars,
           caller[p].pc = "wait", caller'[p].ok, caller[p].own # None
    PROVE  /\ caller[p].s = caller[p].own
           /\ session[caller[p].s].proxy = "open" \/ session[caller[p].s].stop
<1> DEFINE s == caller[p].s
           a == session[s]
<1>0. /\ p \in Callers /\ caller \in [Callers -> CallRecords]
      /\ s \in Sessions /\ a \in SessionRecords /\ Clean(a, vlc[s])
  BY DEF Typed, SessionTypeOK, InHand, Callers, EndsClean
<1>1. caller[p].s = caller[p].own /\ ~caller[p].ok
  BY DEF OwnInHand
<1>2. caller' # caller
  BY <1>1
<1>3. ~ \E t \in Sessions : Run(t) \/ PlaybackEnded(t)
  BY <1>2 DEF Run, Begin, Probe, Check, Build, Recheck, Choose, Branch, MakePlayer,
              NoPlayer, Play, Ready, LeaveMonitor, Fail, Finally, CloseProxy, Release,
              Finish, PlaybackEnded, RunGoto, RunOnly
<1>4. ASSUME NEW c \in Callers, NEW op, NEW label, Call(c, op, label) PROVE FALSE
  BY <1>0, <1>1, <1>4 DEF Call
<1>5. PICK c \in Callers : CallStep(c)
  BY <1>2, <1>3, <1>4 DEF SessionNext, Quiescent, PlayUrl, PlayRejected, UserStop,
                          PlayWithVlc, Callers, sessionVars
<1>6. caller' = [caller EXCEPT ![c] = caller'[c]]
  BY <1>0, <1>5 DEF CallStep, Halt, Tell, Hush, Await, Install, Launch, Current, WaitReady,
       Offer, SetMode, FallbackPlayer, FallbackFailed, HandOver, Return, CallGoto, CallRecords
<1>7. c = p
  BY <1>0, <1>1, <1>6
<1>8. WaitReady(p)
  BY <1>5, <1>7 DEF CallStep, Halt, Tell, Hush, Await, Install, Launch, Current,
       Offer, SetMode, FallbackPlayer, FallbackFailed, HandOver, Return
<1>9. ~a.error /\ a.proxy # "none"
  BY <1>0, <1>8 DEF WaitReady, CallRecords
<1> HIDE DEF a, s
<1>10. a.proxy = "open" \/ a.stop
  BY <1>0, <1>9 DEF Clean, SessionRecords
<1> QED
  BY <1>1, <1>10 DEF a, s

(* With one thread in play, an answer that is ok is about the session this *)
(* play has started, whose proxy is open unless the session was told to    *)
(* stop. MCSessionAnswer.cfg shows why the URL has to be accepted.         *)
THEOREM AnswersSound ==
    ASSUME NEW p, PlayCallers = {p}
    PROVE  SessionSpec => AnswerSound
<1>1. SessionInit => OwnInHand(p)
  BY SessionAssumption DEF SessionInit, OwnInHand, Idle, Callers
<1>2. Typed /\ OwnInHand(p) /\ [SessionNext]_sessionVars => OwnInHand(p)'
  BY OwnInHandNext
<1>3. Typed /\ EndsClean /\ OwnInHand(p) /\ [SessionNext]_sessionVars =>
          [\A c \in PlayCallers :
             caller[c].pc = "wait" /\ caller'[c].ok /\ caller[c].own # None =>
               /\ caller[c].s = caller[c].own
               /\ session[caller[c].s].proxy = "open" \/ session[caller[c].s].stop]_sessionVars
  BY AnswerStep
<1> QED
  BY <1>1, <1>2, <1>3, TypedAlways, CleanInit, EndsCleanNext, PTL DEF SessionSpec, AnswerSound
=============================================================================
