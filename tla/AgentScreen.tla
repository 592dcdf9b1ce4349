---------------------------- MODULE AgentScreen ----------------------------
(***************************************************************************)
(* The screen of the LVGL agent (scr_agent.c) and the face on its second   *)
(* idle page (kawaii_face.c).  One thread runs all of it: commands and     *)
(* buttons come between two ticks of the main loop.                        *)
(*                                                                         *)
(* Labels, colours and positions are left out, and of the face what the    *)
(* animation of an emotion overwrites at every tick: pupils, bounce and    *)
(* blush.  Time is counted in ticks.                                       *)
(***************************************************************************)
EXTENDS GuiStates, Integers

CONSTANT BlinkTicks   \* blink_interval_ms, in ticks

ASSUME BlinkTicksNat == BlinkTicks \in Nat

VARIABLES
    g_state,
    g_idle_page,
    containers,     \* of g_containers, those not hidden
    pages, dots,    \* of the idle pages, those not hidden; of their dots, the white ones
    current, target, trans_pct,
    face,           \* S.eye_l_open, S.eye_r_open, S.mouth_curve and the brows
    blinking, blink_phase,
    since_blink,    \* ticks since last_blink_ms, up to BlinkTicks
    set_back        \* history: `current` was asked for again before a transition from it ended

screen == <<g_state, g_idle_page, containers, pages, dots>>
kawaii == <<current, target, trans_pct, face, blinking, blink_phase, since_blink, set_back>>
screen_vars == <<screen, kawaii>>

IDLE_PAGE_COUNT == 2
Pages == 0..(IDLE_PAGE_COUNT - 1)
Containers == {"idle", "speaking", "error"}

\* Listening and thinking share the container of idle.
Container(s) == IF s \in {"speaking", "error"} THEN s ELSE "idle"

\* The page a state opens, in that container.
PageOf(s) == IF s = "idle" THEN 0 ELSE 1

Emotion(s) ==
    CASE s = "idle"      -> "NEUTRAL"
      [] s = "listening" -> "SURPRISED"
      [] s = "thinking"  -> "WORKING_HARD"
      [] s = "speaking"  -> "HAPPY"
      [] s = "error"     -> "SAD"

EMO_TABLE ==
    [NEUTRAL      |-> [left |-> 100, right |-> 100, mouth |->   0,
                       brow_l |->   0, brow_r |->   0, brow_h |->   0],
     HAPPY        |-> [left |->  96, right |->  96, mouth |->  90,
                       brow_l |->  -4, brow_r |->  -4, brow_h |->  -5],
     SURPRISED    |-> [left |-> 100, right |-> 100, mouth |->  50,
                       brow_l |->   0, brow_r |->   0, brow_h |-> -10],
     WORKING_HARD |-> [left |->  65, right |->  65, mouth |->   0,
                       brow_l |->  22, brow_r |-> -22, brow_h |->   4],
     SAD          |-> [left |->  60, right |->  60, mouth |-> -75,
                       brow_l |-> -15, brow_r |->  15, brow_h |->   3]]

Emotions == DOMAIN EMO_TABLE
Params == {"left", "right", "mouth", "brow_l", "brow_r", "brow_h"}

---------------------------------------------------------------------------
(* kawaii_face.c.                                                          *)

\* C's division, toward zero.
Quot(n, d) == IF n >= 0 THEN n \div d ELSE -((-n) \div d)

Lerp(from, to, pct) == [p \in Params |-> from[p] + Quot((to[p] - from[p]) * pct, 100)]

WithEyes(left, right) == [face EXCEPT !.left = left, !.right = right]

\* Fault: the eyes go on closing after the middle of the blink; a byte wraps.
OpennessWraps(phase) == IF phase < 70 THEN (100 - phase * 2) % 256 ELSE (phase - 50) * 2

Openness(phase) == IF phase < 50 THEN 100 - phase * 2 ELSE (phase - 50) * 2

BlinkEnds == blinking /\ blink_phase + 20 >= 100

\* Fault: the blink ends with the eyes where its last phase left them.
BlinkedOpen == IF blinking /\ ~BlinkEnds
               THEN WithEyes(Openness(blink_phase + 20), Openness(blink_phase + 20))
               ELSE face

\* The face after the first part of a tick.
Blinked == IF BlinkEnds THEN WithEyes(EMO_TABLE[current].left, EMO_TABLE[current].right)
           ELSE IF blinking THEN WithEyes(Openness(blink_phase + 20), Openness(blink_phase + 20))
           ELSE face

\* The second part: lerp_toward_target, with the percentage of before.  Its eyes win.
Moving == current # target

TransEnds == trans_pct + 8 >= 100

Blink ==
    /\ blinking' = IF blinking THEN ~BlinkEnds ELSE since_blink >= BlinkTicks
    /\ blink_phase' = IF blinking /\ ~BlinkEnds THEN blink_phase + 20 ELSE 0
    /\ since_blink' = IF BlinkEnds THEN 0
                      ELSE IF since_blink < BlinkTicks THEN since_blink + 1 ELSE BlinkTicks

Transition ==
    IF Moving THEN /\ face' = Lerp(EMO_TABLE[current], EMO_TABLE[target], trans_pct)
                   /\ trans_pct' = IF TransEnds THEN 100 ELSE (trans_pct + 8) % 256
                   /\ current' = IF TransEnds THEN target ELSE current
              ELSE face' = Blinked /\ UNCHANGED <<trans_pct, current>>

\* agent_tick: what it draws is left out.
Tick == Blink /\ Transition /\ UNCHANGED <<screen, target, set_back>>

\* Until another emotion is asked for, no lerp follows.
SetBack(e) == e = current /\ (Moving \/ set_back)

\* Fault: the emotion is current at once.
SetCurrent(e) == /\ current' = e /\ target' = e /\ trans_pct' = 0
                 /\ set_back' = SetBack(e)
                 /\ UNCHANGED <<face, blinking, blink_phase, since_blink>>

\* kawaii_set_emotion, smooth: the transition starts anew, from the emotion `current`.
SetEmotion(e) == /\ target' = e /\ trans_pct' = 0
                 /\ set_back' = SetBack(e)
                 /\ UNCHANGED <<current, face, blinking, blink_phase, since_blink>>

---------------------------------------------------------------------------
(* scr_agent.c.                                                            *)

\* One page of the idle container, and its dot.
ShowPage(p) == pages' = {p} /\ dots' = {p} /\ g_idle_page' = p

agent_set_state(s) ==
    /\ g_state' = s
    /\ containers' = (containers \ Containers) \cup {Container(s)}
    /\ IF Container(s) = "idle" THEN ShowPage(PageOf(s))
                                ELSE UNCHANGED <<pages, dots, g_idle_page>>
    /\ SetEmotion(Emotion(s))

Turn(dir) ==
    LET next == (g_idle_page + dir + IDLE_PAGE_COUNT) % IDLE_PAGE_COUNT IN
    /\ pages' = (pages \ {g_idle_page}) \cup {next}
    /\ dots' = (dots \ {g_idle_page}) \cup {next}
    /\ g_idle_page' = next
    /\ UNCHANGED <<g_state, containers, kawaii>>

\* Fault: the pages turn wherever they are on the screen.
TurnAnywhere(dir) == Container(g_state) = "idle" /\ Turn(dir)

agent_idle_nav(dir) == g_state = "idle" /\ Turn(dir)

\* agent_screen_init.
ScreenInit ==
    /\ g_state = "idle" /\ g_idle_page = 0
    /\ containers = {"idle"} /\ pages = {0} /\ dots = {0}
    /\ current = "NEUTRAL" /\ target = "NEUTRAL" /\ trans_pct = 0
    /\ face = EMO_TABLE["NEUTRAL"]
    /\ blinking = FALSE /\ blink_phase = 0 /\ since_blink = 0
    /\ set_back = FALSE

Command == \E s \in States : agent_set_state(s)

ScreenNext == Command \/ (\E dir \in {-1, 1} : agent_idle_nav(dir)) \/ Tick

ScreenSpec == ScreenInit /\ [][ScreenNext]_screen_vars

\* The main loop ticks every 10 ms.
ScreenFairSpec == ScreenSpec /\ WF_screen_vars(Tick)

---------------------------------------------------------------------------
(* Properties.                                                             *)

\* Every variable keeps its type: no percentage, phase or opening leaves its range.
ScreenTypeOK ==
    /\ g_state \in AgentStates /\ g_idle_page \in Pages
    /\ containers \subseteq Containers /\ pages \subseteq Pages /\ dots \subseteq Pages
    /\ current \in Emotions /\ target \in Emotions /\ trans_pct \in 0..100
    /\ face \in [Params -> -100..100] /\ face.left \in 0..100 /\ face.right \in 0..100
    /\ blinking \in BOOLEAN /\ blink_phase \in 0..80 /\ since_blink \in 0..BlinkTicks
    /\ set_back \in BOOLEAN

\* Whatever commands and buttons came in whatever order, one container is visible and it is
\* the state's; one page is visible in the idle container, with its dot; and while the
\* agent listens or thinks that page is the face.
OneScreen ==
    /\ containers = {Container(g_state)}
    /\ pages = {g_idle_page} /\ dots = {g_idle_page}
    /\ g_state \in {"listening", "thinking"} => g_idle_page = 1

\* From some time on no command comes.
Quiet == <>[][~Command]_screen_vars

\* Mouth and brows are pct of the way from one emotion to another.
MouthAndBrows(from, to, pct) ==
    \A p \in Params \ {"left", "right"} : face[p] = Lerp(EMO_TABLE[from], EMO_TABLE[to], pct)[p]

\* As the last step of a transition to `current` draws them, at 96%.
Drawn == \E from \in Emotions : MouthAndBrows(from, current, 96)

\* As a transition from `current` left them that never ended.
Midway == \E to \in Emotions, step \in 0..11 : MouthAndBrows(current, to, 8 * step)

\* However states followed each other, in the middle of transitions and of blinks, in the
\* end mouth and brows are drawn as the last state's emotion has them, but for the 4% that
\* a transition leaves; except when that state was set back during the transition from it:
\* then they may stay up to 88% on their way to the other face.
FaceSettles ==
    Quiet => <>[](current = Emotion(g_state) /\ (Drawn \/ (set_back /\ Midway)))

\* The eyes are again and again as open as the emotion has them, though a transition stops
\* short of its end and writes over a blink.
EyesOpen ==
    Quiet => []<>(/\ face.left = EMO_TABLE[current].left
                  /\ face.right = EMO_TABLE[current].right)

=============================================================================
