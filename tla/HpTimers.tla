------------------------------- MODULE HpTimers -------------------------------
(***************************************************************************)
(* The timer of hp_timerfd.c on the loop of hp_epoll.c and, as its handle, *)
(* the cache of hp_expire.c, which drops objects nobody asked for during   *)
(* e->ms.                                                                  *)
(*                                                                         *)
(* The descriptor blocks, and the drive loop of hp_epoll_run calls its     *)
(* callback in every pass, expired or not.  Time is discrete and passes    *)
(* only while the loop waits: callbacks are quick.  Ages are kept instead  *)
(* of times, up to MaxAge.                                                 *)
(***************************************************************************)
EXTENDS Integers, FiniteSets

CONSTANTS
  Keys,         \* ids of hp_expire_get
  Ms,           \* timeout_ms; the timer's interval is Ms \div 2
  MaxMade       \* bound: objects fn returns

ASSUME TimersAssumption == Ms \in Nat /\ Ms \div 2 > 0 /\ MaxMade \in Nat

VARIABLES
  interval,     \* of the timer, 0 if it is stopped
  left,         \* time to its next expiration
  expired,      \* whether an expiration was not read yet
  treg,         \* whether the descriptor is in the epoll set
  owner,        \* "init" if hp_timerfd_init made it, "init2", "none"
  tpc2,         \* where the loop is: "drive", "user", "wait"
  dic,          \* dic[k]: in (has an entry), p (object or 0), age (now - t)
  made, freed,  \* objects fn returned; freed[o]: calls of e->free
  since,        \* since[o]: time since hp_expire_get returned o
  early         \* an object was freed although it had been asked for

cache == <<dic, made, freed, since, early>>
timer == <<interval, left, expired, treg, owner>>
timersVars == <<interval, left, expired, treg, owner, tpc2, dic, made, freed, since,
                early>>
MaxAge == 2 * Ms
Objects == 1..MaxMade
Older(n) == IF n < MaxAge THEN n + 1 ELSE n
NoEntry == [in |-> FALSE, p |-> 0, age |-> 0]

TimersInit ==
  /\ interval = 0 /\ left = 0 /\ expired = FALSE /\ treg = FALSE /\ owner = "none"
  /\ tpc2 = "user"
  /\ dic = [k \in Keys |-> NoEntry]
  /\ made = 0 /\ freed = [o \in Objects |-> 0] /\ since = [o \in Objects |-> 0]
  /\ early = FALSE

\* Mutant: it_value stays 0, which leaves the timer disarmed.
Bad_hp_timerfd_reset(n) ==
  interval' = n /\ left' = 0 /\ expired' = FALSE

\* hp_timerfd_reset: the first expiration is due at once.
hp_timerfd_reset(n) ==
  interval' = n /\ left' = n /\ expired' = (n > 0)

\* hp_expire_init and hp_expire_init2; init2 takes a descriptor and does not keep
\* efds.  hp_epoll_add may fail: -3, the timer is not started.
hp_expire_init(how) ==
  /\ tpc2 = "user" /\ owner = "none"
  /\ owner' = how
  /\ \/ treg' = TRUE /\ hp_timerfd_reset(Ms \div 2)
     \/ treg' = FALSE /\ UNCHANGED <<interval, left, expired>>
  /\ UNCHANGED <<tpc2, cache>>

\* The program stops the timer or starts it again.
UserResets(n) ==
  /\ tpc2 = "user" /\ owner # "none"
  /\ hp_timerfd_reset(n)
  /\ UNCHANGED <<treg, owner, tpc2, cache>>

\* Mutant: the time of an object that was there is not refreshed.
Bad_hp_expire_get(k) ==
  /\ tpc2 = "user" /\ owner # "none"
  /\ \E o \in {made, made + 1} :
       /\ o \in Objects
       /\ IF dic[k].p # 0
            THEN o = made /\ since' = [since EXCEPT ![dic[k].p] = 0] /\ UNCHANGED <<dic, made>>
            ELSE /\ dic' = [dic EXCEPT ![k] = [in |-> TRUE, p |-> o, age |-> 0]]
                 /\ o = made + 1 /\ made' = o
                 /\ since' = [since EXCEPT ![o] = 0]
  /\ UNCHANGED <<timer, tpc2, freed, early>>

\* fn returns an object, or 0 and the entry stays without one.
hp_expire_get(k) ==
  /\ tpc2 = "user" /\ owner # "none"
  /\ \E o \in {0, made + 1, dic[k].p} :
       /\ o \in Objects \cup {0}
       /\ dic[k].p # 0 => o = dic[k].p
       /\ made' = IF o > made THEN o ELSE made
       /\ dic' = [dic EXCEPT ![k] = [in |-> TRUE, p |-> o, age |-> 0]]
       /\ since' = [q \in Objects |-> IF q = o THEN 0 ELSE since[q]]
  /\ UNCHANGED <<timer, tpc2, freed, early>>

Old(k) == dic[k].p # 0 /\ dic[k].age >= Ms

Free(S) ==
  freed' = [o \in Objects |-> freed[o] + Cardinality({k \in S : dic[k].p = o})]

\* Objects that are old are freed, their entries stay.
handle_timer ==
  LET S == {k \in Keys : Old(k)}
  IN  /\ Free(S)
      /\ dic' = [k \in Keys |-> IF k \in S THEN [dic[k] EXCEPT !.p = 0] ELSE dic[k]]
      /\ early' = (early \/ \E k \in S : since[dic[k].p] < Ms)

\* hp_timerfd_handle_tfd: read returns when the timer has expired.
ReadReturns ==
  /\ treg /\ expired
  /\ expired' = FALSE
  /\ handle_timer
  /\ UNCHANGED <<interval, left, treg, owner, made, since>>

\* One pass of hp_epoll_run: the drive loop reads, epoll_wait reports.
DriveTimer ==
  /\ tpc2 = "drive"
  /\ IF treg THEN ReadReturns ELSE UNCHANGED <<timer, cache>>
  /\ tpc2' = "wait"

TimerEvent == tpc2 = "wait" /\ ReadReturns /\ tpc2' = "user"

NoTimerEvent ==
  /\ tpc2 = "wait" /\ ~(treg /\ expired)
  /\ tpc2' = "user"
  /\ UNCHANGED <<timer, cache>>

NextPassStarts == tpc2 = "user" /\ tpc2' = "drive" /\ UNCHANGED <<timer, cache>>

\* Blocked in read or waiting in epoll_wait
Waiting == tpc2 = "wait" \/ (tpc2 = "drive" /\ treg)

TimePasses ==
  /\ Waiting /\ ~expired
  /\ left' = IF left = 1 THEN interval ELSE IF left > 0 THEN left - 1 ELSE 0
  /\ expired' = (left = 1)
  /\ dic' = [k \in Keys |-> [dic[k] EXCEPT !.age = Older(@)]]
  /\ since' = [o \in Objects |-> IF o <= made THEN Older(since[o]) ELSE 0]
  /\ UNCHANGED <<interval, treg, owner, tpc2, made, freed, early>>

\* The dictionary frees every entry's object, 0 where there is none; a timer of
\* hp_timerfd_init2 stays in the epoll set.
hp_expire_uninit ==
  /\ tpc2 = "user" /\ owner # "none"
  /\ Free(Keys)
  /\ dic' = [k \in Keys |-> NoEntry]
  /\ treg' = (treg /\ owner = "init2")
  /\ interval' = 0 /\ left' = 0 /\ expired' = FALSE /\ owner' = "gone"
  /\ tpc2' = "end"
  /\ UNCHANGED <<made, since, early>>

LoopPass == DriveTimer \/ TimerEvent \/ NoTimerEvent \/ NextPassStarts
TimersNext ==
  \/ \E how \in {"init", "init2"} : hp_expire_init(how)
  \/ \E n \in {0, Ms \div 2} : UserResets(n)
  \/ \E k \in Keys : hp_expire_get(k)
  \/ LoopPass \/ TimePasses \/ hp_expire_uninit
TimersSpec == TimersInit /\ [][TimersNext]_timersVars

\* The program runs the loop, and time passes.
TimersFair ==
  WF_timersVars(LoopPass) /\ WF_timersVars(TimePasses)
-----------------------------------------------------------------------------
TimersTypeOK ==
  /\ interval \in {0, Ms \div 2} /\ left \in 0..interval
  /\ \A k \in Keys : dic[k].p # 0 => dic[k].in /\ dic[k].p <= made
  /\ \A o \in Objects : freed[o] \in 0..1

\* Every object fn made is freed once, by the timer or at the end, and until then
\* it is the object of exactly one entry.
FreedOnce ==
  \A o \in 1..made : freed[o] + Cardinality({k \in Keys : dic[k].p = o}) = 1

\* The timer frees an object only if nobody was given it during e->ms.
NotFreedEarly == ~early

\* While the timer runs no object gets older than 1.5 times e->ms: the check that
\* comes just too early is followed by another one.
GoneInTime ==
  treg /\ interval > 0 => \A k \in Keys : dic[k].p # 0 => dic[k].age <= Ms + interval

\* A timer that stays started expires, and is read, again and again.
KeepsTicking ==
  <>[](treg /\ interval > 0) => []<>expired /\ []<>~expired

\* "to make sure that expire time always in (0, timeout_ms]" (hp_expire.c:79-82):
\* while the timer runs, no object is kept longer than e->ms after it was last asked
\* for.  It is kept up to half as long again.
ExpiresInTime ==
  treg /\ interval > 0 => \A k \in Keys : dic[k].p # 0 => dic[k].age <= Ms

\* An object of the cache is freed exactly once, not too early and not too late.
ObjectsSound == TimersTypeOK /\ FreedOnce /\ NotFreedEarly /\ GoneInTime
=============================================================================
