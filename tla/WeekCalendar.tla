----------------------------- MODULE WeekCalendar -----------------------------
(***************************************************************************)
(* NFL weeks and their games as the schedule import keeps them, and how    *)
(* the backend decides which week it is: nfl_schedule_service.py,          *)
(* weeks_service.py and nfl_week_repository.py.                            *)
(*                                                                         *)
(* The importer upserts whatever ESPN returns for a week, so a re-import   *)
(* may add games, change kickoffs and move a game to another week.  Here a *)
(* game is what picking needs of it: its week and its kickoff.             *)
(***************************************************************************)
EXTENDS Naturals, FiniteSets, FiniteSetsExt

CONSTANTS
  Games,
  LastWeek,      \* weeks are numbered 1..LastWeek
  Buffer,        \* _END_OF_WEEK_BUFFER
  Feeds,         \* ESPN answers: [week |-> number, at |-> [games -> kickoff]]
  MayPostpone,   \* whether a game may be postponed after its kickoff has passed
  MaxTime        \* bound: the last moment modelled

Weeks == 1..LastWeek
NoWeek == 0

ASSUME CalendarAssumption ==
  /\ IsFiniteSet(Games)
  /\ {LastWeek, Buffer, MaxTime} \subseteq Nat
  /\ MayPostpone \in BOOLEAN
  /\ \A f \in Feeds :
       f.week \in Weeks /\ DOMAIN f.at \in (SUBSET Games) \ {{}} /\ f.at \in [DOMAIN f.at -> Nat]

VARIABLES
  clock,
  weeks,       \* weeks that have a row
  weekOf,      \* week of each game, NoWeek before its import
  kickoff,     \* kickoff of each game
  startDate,   \* first moment of each week's window
  endDate,     \* last moment of each week's window
  complete     \* weeks whose status is COMPLETE

calendarVars == <<clock, weeks, weekOf, kickoff, startDate, endDate, complete>>

CalendarTypeOK ==
  /\ clock \in 0..MaxTime
  /\ complete \subseteq weeks /\ weeks \subseteq Weeks
  /\ weekOf \in [Games -> weeks \cup {NoWeek}]
  /\ kickoff \in [Games -> Nat]
  /\ {startDate, endDate} \subseteq [Weeks -> Nat]

CalendarInit ==
  /\ clock = 0
  /\ weeks = {} /\ complete = {}
  /\ weekOf = [g \in Games |-> NoWeek]
  /\ kickoff = [g \in Games |-> 0]
  /\ startDate = [w \in Weeks |-> 0]
  /\ endDate = [w \in Weeks |-> 0]

GamesOf(w) == {g \in Games : weekOf[g] = w}

\* The earliest kickoff of the week has passed: its cards are locked.
KickedOff(w) == \E g \in GamesOf(w) : kickoff[g] <= clock

(***************************************************************************)
(* Which week is it?                                                       *)
(***************************************************************************)

\* get_current: weeks whose window covers now.
Covering == {w \in weeks : startDate[w] <= clock /\ clock <= endDate[w]}

\* get_earliest_incomplete: weeks whose scoring has not finished.
Incomplete == weeks \ complete

\* The lowest week whose window covers now; failing that, the earliest incomplete.
CurrentWeek ==
  LET candidates == IF Covering # {} THEN Covering ELSE Incomplete
  IN  IF candidates = {} THEN NoWeek ELSE Min(candidates)

Pickable(w) == w \in weeks /\ startDate[w] <= clock /\ ~KickedOff(w)

\* Broken variant: picking follows the current week until it is over.
PickWeek_Current == CurrentWeek

\* get_pick_week: once the current week has kicked off, the next one if it is
\* imported, released and has not.
PickWeek ==
  IF CurrentWeek # NoWeek /\ KickedOff(CurrentWeek) /\ Pickable(CurrentWeek + 1)
    THEN CurrentWeek + 1
    ELSE CurrentWeek

(***************************************************************************)
(* What changes the calendar.                                              *)
(***************************************************************************)

\* Whether a feed leaves the games that have kicked off in the past.
PlaysOnTime(f) ==
  \A g \in DOMAIN f.at :
    weekOf[g] # NoWeek /\ kickoff[g] <= clock => f.at[g] <= clock

\* import_games: creates the week or widens its window, upserts the games; one
\* commit.  A new week is released now, or at its first kickoff if that is past.
ImportGames(f) ==
  LET first == Min(Range(f.at))
      end == Max(Range(f.at)) + Buffer
      isNew == f.week \notin weeks
  IN  /\ MayPostpone \/ PlaysOnTime(f)
      /\ weeks' = weeks \cup {f.week}
      /\ startDate' = [startDate EXCEPT ![f.week] =
                         Min({first, IF isNew THEN clock ELSE @})]
      /\ endDate' = [endDate EXCEPT ![f.week] = IF isNew THEN end ELSE Max({end, @})]
      /\ weekOf' = [g \in Games |-> IF g \in DOMAIN f.at THEN f.week ELSE weekOf[g]]
      /\ kickoff' = [g \in Games |-> IF g \in DOMAIN f.at THEN f.at[g] ELSE kickoff[g]]
      /\ UNCHANGED <<clock, complete>>

\* score_week marks a week COMPLETE when it has games and all are over; games
\* cancelled before their kickoff are left out.
CompleteWeek(w) ==
  /\ w \in Incomplete /\ GamesOf(w) # {}
  /\ \A g \in GamesOf(w) : kickoff[g] < clock
  /\ complete' = complete \cup {w}
  /\ UNCHANGED <<clock, weeks, weekOf, kickoff, startDate, endDate>>

AdvanceClock ==
  /\ clock < MaxTime
  /\ clock' = clock + 1
  /\ UNCHANGED <<weeks, weekOf, kickoff, startDate, endDate, complete>>

CalendarNext ==
  \/ AdvanceClock
  \/ \E f \in Feeds : ImportGames(f)
  \/ \E w \in Weeks : CompleteWeek(w)

(***************************************************************************)
(* Properties.                                                             *)
(***************************************************************************)

\* While some released week can still be picked, the pick page offers a week
\* that can be picked, although windows overlap and close before weeks complete.
PickWeekIsOpen ==
  (\E w \in Weeks : Pickable(w)) => Pickable(PickWeek)
===============================================================================
