----------------------------- MODULE BillingLog -----------------------------
(***************************************************************************)
(* The log of long term payments: invoice (cgi grant) appends one line     *)
(* with the next serial number, which it finds in the last line, under an  *)
(* exclusive lock on a file of its own.  invoice.lua searches the log by   *)
(* serial number and by time, with a shared lock on the log itself: a      *)
(* search goes on while lines are appended.                                *)
(*                                                                         *)
(* A line is its serial number, its time and the position behind its line  *)
(* feed; an entry is shorter than MaxLine ("we assume an entry is < 4K",   *)
(* invoice.lua:49), so that it is appended by one write.                   *)
(***************************************************************************)
EXTENDS Naturals, Sequences

CONSTANTS Payers,      \* cgi processes; one that has ended may start again
          FirstSn,     \* invoicesn of the configuration, or 0
          MaxLine,     \* lengths of lines are in 1..MaxLine - 1
          Window,      \* 4096: what is left to the linear search
          Near,        \* 10: the distance of a serial number that is close
          LogBound,    \* bound of the number of lines
          LastSecond   \* bound of the clock

ASSUME BillingAssumption ==
  /\ FirstSn \in Nat /\ LogBound \in Nat /\ LastSecond \in Nat
  /\ MaxLine \in Nat /\ MaxLine > 1
  /\ Window \in Nat \ {0} /\ Near \in Nat

VARIABLES billLog,     \* the lines of the log
          billPc,      \* where a process is
          billSn,      \* sn: the serial number it is going to write
          billClock,
          search       \* the variables of findsn or findtime

payVars == <<billLog, billPc, billSn, billClock>>
billVars == <<payVars, search>>

BillLine == [sn : Nat, time : Nat, end : Nat]

\* Where line i ends; behind the last one is the end of the file.
EndOf(log, i) == IF i = 0 THEN 0 ELSE log[i].end
Size(log) == EndOf(log, Len(log))

None == 0

BillInit ==
  /\ billLog = <<>>
  /\ billPc = [p \in Payers |-> "start"]
  /\ billSn = [p \in Payers |-> 0]
  /\ billClock = 0
  /\ search = [at |-> "idle", by |-> "sn", want |-> 0, lo |-> 0, hi |-> 0, cur |-> 0,
               line |-> 1, seen |-> 0, found |-> None]

\* Who has the lock.
LocksBill(p) == billPc[p] \in {"locked", "numbered", "written"}

\* Mutant of LockBill: flock is called without waiting.
LockBillAnyway(p) ==
  /\ billPc[p] = "start"
  /\ billPc' = [billPc EXCEPT ![p] = "locked"]
  /\ UNCHANGED <<billLog, billSn, billClock, search>>

\* A customer without a name, an address or a currency gets no invoice.
LockBill(p) ==
  /\ billPc[p] = "start"
  /\ \A q \in Payers : ~LocksBill(q)
  /\ billPc' = [billPc EXCEPT ![p] = "locked"]
  /\ UNCHANGED <<billLog, billSn, billClock, search>>

\* tail -n 1; an empty log starts from the configuration.
NextSn(log) == (IF log = <<>> THEN FirstSn ELSE log[Len(log)].sn) + 1

NumberBill(p) ==
  /\ billPc[p] = "locked"
  /\ billSn' = [billSn EXCEPT ![p] = NextSn(billLog)]
  /\ billPc' = [billPc EXCEPT ![p] = "numbered"]
  /\ UNCHANGED <<billLog, billClock, search>>

AppendBill(p) ==
  /\ billPc[p] = "numbered"
  /\ Len(billLog) < LogBound
  /\ \E n \in 1..(MaxLine - 1) :
       billLog' = Append(billLog, [sn |-> billSn[p], time |-> billClock,
                                   end |-> Size(billLog) + n])
  /\ billPc' = [billPc EXCEPT ![p] = "written"]
  /\ UNCHANGED <<billSn, billClock, search>>

\* The lock goes with the process: it ends, the log cannot be opened, or it is
\* killed between any two calls.
EndBill(p) ==
  /\ LocksBill(p)
  /\ billPc' = [billPc EXCEPT ![p] = "start"]
  /\ billSn' = [billSn EXCEPT ![p] = 0]
  /\ UNCHANGED <<billLog, billClock, search>>

BillTick ==
  /\ billClock < LastSecond
  /\ billClock' = billClock + 1
  /\ UNCHANGED <<billLog, billPc, billSn, search>>

BillStep(p) == LockBill(p) \/ NumberBill(p) \/ AppendBill(p) \/ EndBill(p)

----------------------------------------------------------------------------
(* findsn and findtime.  Searches only read, so one at a time is enough:    *)
(* search.by says which function it is, want what it is called with, lo,    *)
(* hi and cur (cursn) are its variables; line is the line the file stands   *)
(* at, found the line of the entry that is returned.  seen is history: the  *)
(* lines there were when the search began.                                  *)

SearchStates ==
  [at : {"idle", "bisect", "linear", "done"}, by : {"sn", "time"}, want : Nat,
   lo : Nat, hi : Nat, cur : Nat, line : Nat \ {0}, seen : Nat, found : Nat]

Key(l) == IF search.by = "sn" THEN l.sn ELSE l.time

FindFirst(by, want) ==
  /\ search.at \in {"idle", "done"}
  /\ search' = [at |-> "bisect", by |-> by, want |-> want, lo |-> 0, hi |-> Size(billLog),
                cur |-> 0, line |-> 1, seen |-> Len(billLog), found |-> None]
  /\ UNCHANGED payVars

\* Mutant of IsClose: a number behind the target is close as well.
IsCloseBothWays == search.by = "sn" /\ search.cur + Near > search.want

\* The bisection of findsn stops when it is a few numbers before the target.
IsClose == search.by = "sn" /\ search.cur < search.want /\ search.cur + Near > search.want

StopNear ==
  /\ search.at = "bisect" /\ IsClose
  /\ search' = [search EXCEPT !.at = "linear"]
  /\ UNCHANGED payVars

\* f:seek("set", lo), which is where a line starts, or the end.
Narrow ==
  /\ search.at = "bisect" /\ ~IsClose
  /\ search.hi < search.lo + Window
  /\ \E i \in 0..Len(billLog) :
       /\ EndOf(billLog, i) = search.lo
       /\ search' = [search EXCEPT !.at = "linear", !.line = i + 1]
  /\ UNCHANGED payVars

\* The byte at pos is in line i: its rest is read, and then the line after it, if
\* there is one.
ProbeEnds(pos, i) ==
  i = Len(billLog) /\ search' = [search EXCEPT !.hi = pos, !.line = i + 1]
ProbeUp(i) ==
  /\ i < Len(billLog) /\ Key(billLog[i + 1]) < search.want
  /\ search' = [search EXCEPT !.cur = Key(billLog[i + 1]), !.line = i + 2,
                              !.lo = EndOf(billLog, i + 1)]
ProbeDown(pos, i) ==
  /\ i < Len(billLog) /\ Key(billLog[i + 1]) > search.want
  /\ search' = [search EXCEPT !.cur = Key(billLog[i + 1]), !.line = i + 2, !.hi = pos]
ProbeHits(i) ==
  /\ i < Len(billLog) /\ Key(billLog[i + 1]) = search.want
  /\ search' = [search EXCEPT !.cur = Key(billLog[i + 1]), !.line = i + 2,
                              !.at = "done", !.found = i + 1]

Probe ==
  /\ search.at = "bisect" /\ ~IsClose
  /\ search.hi >= search.lo + Window
  /\ LET pos == (search.lo + search.hi) \div 2
     IN  \E i \in 1..Len(billLog) :
           /\ EndOf(billLog, i - 1) <= pos /\ pos < EndOf(billLog, i)
           /\ ProbeEnds(pos, i) \/ ProbeUp(i) \/ ProbeDown(pos, i) \/ ProbeHits(i)
  /\ UNCHANGED payVars

AtEnd == search.line > Len(billLog)

\* A turn of the linear search of findsn.
ReadSn ==
  /\ search.at = "linear" /\ search.by = "sn"
  /\ search' = IF AtEnd \/ Key(billLog[search.line]) > search.want
               THEN [search EXCEPT !.at = "done"]
               ELSE IF Key(billLog[search.line]) = search.want
               THEN [search EXCEPT !.at = "done", !.found = search.line]
               ELSE [search EXCEPT !.line = @ + 1]
  /\ UNCHANGED payVars

\* Mutant of IsLate: an invoice of the time itself is passed over.
IsLateStrict(l) == Key(l) > search.want

IsLate(l) == Key(l) >= search.want

\* A turn of the linear search of findtime.  At the end of the log its entry is
\* the last line that it has read.
ReadTime ==
  /\ search.at = "linear" /\ search.by = "time"
  /\ search' = IF AtEnd THEN [search EXCEPT !.at = "done"]
               ELSE [search EXCEPT !.found = search.line, !.line = @ + 1,
                       !.at = IF IsLate(billLog[search.line]) THEN "done" ELSE @]
  /\ UNCHANGED payVars

FindSn == \/ \E sn \in 0..(FirstSn + LogBound + 1) : FindFirst("sn", sn)
          \/ StopNear \/ ReadSn
FindTime == \/ \E t \in 0..(LastSecond + 1) : FindFirst("time", t)
            \/ ReadTime

PayStep == (\E p \in Payers : BillStep(p)) \/ BillTick

SearchStep == FindSn \/ FindTime \/ Narrow \/ Probe

BillNext == PayStep \/ SearchStep

BillSpec == BillInit /\ [][BillNext]_billVars

----------------------------------------------------------------------------
\* The lines are numbered without gap or repetition from the number of the
\* configuration, however many payments are made at once and whoever is killed
\* with the lock (grant, invoice).
SerialsAreConsecutive ==
  \A i \in 1..Len(billLog) : billLog[i].sn = FirstSn + i

\* What the processes with the lock know.
OneBillAtATime ==
  \A p, q \in Payers : LocksBill(p) /\ LocksBill(q) => p = q

NumberIsNext ==
  \A p \in Payers : billPc[p] = "numbered" => billSn[p] = NextSn(billLog)

BillTypeOK ==
  /\ billLog \in Seq(BillLine)
  /\ billPc \in [Payers -> {"start", "locked", "numbered", "written"}]
  /\ billSn \in [Payers -> Nat]
  /\ billClock \in Nat
  /\ search \in SearchStates

\* The inductive invariant behind SerialsAreConsecutive.
BillInv ==
  BillTypeOK /\ OneBillAtATime /\ NumberIsNext /\ SerialsAreConsecutive

----------------------------------------------------------------------------
LogLines == 1..Len(billLog)
Begin(i) == EndOf(billLog, i - 1)

\* An invoice is found by its number if it was there when the search began, and
\* no other is returned (findsn): neither the bisection nor its early end jumps
\* over a line, whatever is appended meanwhile.
SnIsFound ==
  search.at = "done" /\ search.by = "sn" =>
    IF search.found = None
    THEN \A i \in 1..search.seen : billLog[i].sn # search.want
    ELSE search.found \in LogLines /\ billLog[search.found].sn = search.want

\* A list from a time starts with an invoice of that time, not always the first
\* one; or with the first later one, if there was any so late when the search
\* began (findtime, gettimesn).
TimeIsFound ==
  LET late == {i \in LogLines : billLog[i].time >= search.want}
  IN  search.at = "done" /\ search.by = "time" /\ late \cap 1..search.seen # {} =>
        /\ search.found \in late
        /\ billLog[search.found].time > search.want => \A i \in late : search.found <= i

\* What the bisection leaves is short: of the lines that were there, the linear
\* search passes over none that begins a window behind the place it starts from.
SearchIsShort ==
  search.at = "linear" /\ ~IsClose =>
    \A i \in 1..search.seen : i < search.line => Begin(i) < search.lo + Window

\* An invoice is found by its number and by its time, and soon; by its time as long
\* as the clock does not go back between two payments (BillTick), so that the lines
\* are in the order of their times.
InvoiceIsFound == SnIsFound /\ TimeIsFound /\ SearchIsShort

\* Lines follow each other, in the order of their times.
LogIsOrdered ==
  /\ \A i, j \in 0..Len(billLog) : i < j => EndOf(billLog, i) < EndOf(billLog, j)
  /\ \A i, j \in LogLines : i < j => billLog[i].time <= billLog[j].time
  /\ \A i \in LogLines : billLog[i].time <= billClock

Passed(i) == \A j \in 1..i : Key(billLog[j]) < search.want

\* The bisection has passed over smaller lines only; lines that begin behind hi
\* are bigger, as far as they were there.
BisectionIsRight ==
  search.at \in {"bisect", "linear"} =>
    /\ search.seen <= Len(billLog)
    /\ \E i \in 0..Len(billLog) : search.lo = EndOf(billLog, i) /\ Passed(i)
    /\ \A i \in 1..search.seen : Begin(i) > search.hi => Key(billLog[i]) > search.want
    /\ search.at = "bisect" => search.found = None
    /\ IsClose => search.line <= Len(billLog) + 1 /\ Passed(search.line - 1)

\* The linear search has passed over smaller lines only, and remembers the last.
ReadingIsRight ==
  search.at = "linear" =>
    /\ search.line <= Len(billLog) + 1 /\ Passed(search.line - 1)
    /\ IsClose \/ search.hi < search.lo + Window
    /\ search.by = "sn" => search.found = None
    /\ search.found < search.line

\* The inductive invariant behind InvoiceIsFound.
SearchInv ==
  /\ search.seen <= Len(billLog)
  /\ LogIsOrdered /\ BisectionIsRight /\ ReadingIsRight /\ InvoiceIsFound
=============================================================================
