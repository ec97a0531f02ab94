------------------------------ MODULE Records -------------------------------
(***************************************************************************)
(* The connection records of the client and the table of them on the       *)
(* terminal.  Every connection updates the records when it begins and when *)
(* it ends, under the mutex of ConnRecord; OnChange is called under that   *)
(* mutex, too.  On a terminal the log goes through ProgressLog, which      *)
(* takes the mutex of the records while logrus holds its own.              *)
(***************************************************************************)
EXTENDS Integers, FiniteSets

CONSTANTS
  Conns,     \* connections
  Addrs,     \* target addresses
  AddrOf,    \* the address of a connection
  Loggers,   \* other goroutines that log
  Rows,      \* heights that the terminal may have
  SizeFails  \* terminal.GetSize may fail

ASSUME RecordsAssumption ==
  /\ IsFiniteSet(Conns) /\ IsFiniteSet(Addrs)
  /\ AddrOf \in [Conns -> Addrs]
  /\ Conns \intersect Loggers = {}
  /\ "free" \notin Conns \union Loggers
  /\ Rows \subseteq Nat /\ Rows # {}
  /\ SizeFails \in BOOLEAN

Procs == Conns \union Loggers

VARIABLES
  at,         \* where the connections and loggers are
  recMu,      \* who holds ConnRecord.Mutex
  logMu,      \* who holds the mutex of logrus
  connSize,   \* ConnSize
  addresses,  \* Addresses, 0 for an address that is not in the map
  fatal,      \* the records were found inconsistent
  output,     \* what the standard output is: "terminal" or "file"
  rows,       \* height of the terminal when the table was last written
  lineCount   \* lines of the table on the terminal

muVars  == <<recMu, logMu>>
recVars == <<connSize, addresses, fatal>>
outVars == <<output, rows, lineCount>>
recState == <<at, muVars, recVars, outVars>>

ConnPc == {"new", "add", "added", "addedError", "live", "remove", "removed",
           "removedError", "over"}
LogPc  == {"quiet", "log", "write", "error"}

\* terminal.IsTerminal, asked once by StartClient.
Tty == output = "terminal"

RecInit ==
  /\ at = [p \in Procs |-> IF p \in Conns THEN "new" ELSE "quiet"]
  /\ recMu = "free"
  /\ logMu = "free"
  /\ connSize = 0
  /\ addresses = [a \in Addrs |-> 0]
  /\ fatal = FALSE
  /\ output \in {"terminal", "file"}
  /\ rows \in Rows
  /\ lineCount = 0

-----------------------------------------------------------------------------
(* ConnRecord.Update.                                                      *)

Lock(x) ==
  /\ at[x] \in {"new", "live"}
  /\ recMu = "free"
  /\ recMu' = x
  /\ at' = [at EXCEPT ![x] = IF @ = "new" THEN "add" ELSE "remove"]
  /\ UNCHANGED <<logMu, recVars, outVars>>

\* A new connection is counted.
Add(x) ==
  /\ at[x] = "add"
  /\ at' = [at EXCEPT ![x] = "added"]
  /\ connSize' = connSize + 1
  /\ addresses' = [addresses EXCEPT ![AddrOf[x]] = @ + 1]
  /\ UNCHANGED <<muVars, fatal, outVars>>

\* Mutant of Left: the last connection of an address is not taken off.
LeftLast(n) == IF n - 1 = 0 THEN n ELSE n - 1

\* What is left of an address; 0 deletes it.
Left(n) == n - 1

\* An address that is not there is fatal.  (What logrus.Fatal does under the
\* mutex is left out: NoBadSize shows that it is not called.)
Remove(x) ==
  /\ at[x] = "remove"
  /\ at' = [at EXCEPT ![x] = "removed"]
  /\ connSize' = connSize - 1
  /\ IF addresses[AddrOf[x]] > 0
       THEN /\ addresses' = [addresses EXCEPT ![AddrOf[x]] = Left(@)]
            /\ UNCHANGED fatal
       ELSE fatal' = TRUE /\ UNCHANGED addresses
  /\ UNCHANGED <<muVars, outVars>>

-----------------------------------------------------------------------------
(* The table: SetLogBuffer and Flush.                                      *)

\* Mutant of TableLines: the row for the prompt is not kept.
TableLinesFull(r, n) == IF r < 3 THEN 1 ELSE 2 + (IF n <= r - 2 THEN n ELSE r - 2)

\* The lines that SetLogBuffer writes for n addresses on r rows: the heading,
\* and if two rows are left then as many addresses as leave two rows, the
\* total, and the lengths of the hubs if all addresses are shown and there are
\* more than two rows left.
TableLines(r, n) ==
  LET left  == r - 1
      shown == IF n <= left - 2 THEN n ELSE left - 2
  IN  IF left < 2 THEN 1
      ELSE 2 + shown + (IF shown = n /\ left - shown > 2 THEN 1 ELSE 0)

\* Flush clears the lines of the old table and writes the new one.
Show ==
  /\ rows' \in Rows
  /\ lineCount' = TableLines(rows', Cardinality({a \in Addrs : addresses[a] > 0}))
  /\ UNCHANGED output

\* OnChange, then the mutex is given back.  On a terminal it writes the table
\* and does not log ...
OnChange(x) ==
  /\ at[x] \in {"added", "removed"}
  /\ Tty
  /\ Show
  /\ recMu' = "free"
  /\ at' = [at EXCEPT ![x] = IF @ = "added" THEN "live" ELSE "over"]
  /\ UNCHANGED <<logMu, recVars>>

\* ... except for the error, when the size of the terminal is not known: that
\* is to be logged while the mutex of the records is held.
SizeError(x) ==
  /\ at[x] \in {"added", "removed"}
  /\ Tty
  /\ SizeFails
  /\ at' = [at EXCEPT ![x] = IF @ = "added" THEN "addedError" ELSE "removedError"]
  /\ UNCHANGED <<muVars, recVars, outVars>>

\* The error gets the mutex of logrus, and comes back to ProgressLog.Write,
\* which waits for the mutex held here.  Another goroutine that logs may have
\* the mutex of logrus and wait there already.
LogError(x) ==
  /\ at[x] \in {"addedError", "removedError"}
  /\ logMu = "free"
  /\ logMu' = x
  /\ UNCHANGED <<at, recMu, recVars, outVars>>

\* Otherwise it logs; the log does not touch the records.
TraceChange(x) ==
  /\ at[x] \in {"added", "removed"}
  /\ ~Tty
  /\ logMu = "free"
  /\ recMu' = "free"
  /\ at' = [at EXCEPT ![x] = IF @ = "added" THEN "live" ELSE "over"]
  /\ UNCHANGED <<logMu, recVars, outVars>>

-----------------------------------------------------------------------------
(* Logging.                                                                *)

\* logrus takes its mutex and calls Write of the output.
Log(l) ==
  /\ at[l] = "quiet"
  /\ logMu = "free"
  /\ logMu' = l
  /\ at' = [at EXCEPT ![l] = IF Tty THEN "log" ELSE "write"]
  /\ UNCHANGED <<recMu, recVars, outVars>>

\* ProgressLog.Write takes the mutex of the records.
LogLock(l) ==
  /\ at[l] = "log"
  /\ recMu = "free"
  /\ recMu' = l
  /\ at' = [at EXCEPT ![l] = "write"]
  /\ UNCHANGED <<logMu, recVars, outVars>>

\* Mutant of LogWrite: the mutexes are not given back.
LogWriteKeeps(l) ==
  /\ at[l] = "write"
  /\ IF Tty THEN Show ELSE UNCHANGED outVars
  /\ at' = [at EXCEPT ![l] = "quiet"]
  /\ UNCHANGED <<muVars, recVars>>

\* The message and the table are written, the mutexes are given back.
LogWrite(l) ==
  /\ at[l] = "write"
  /\ IF Tty THEN Show /\ recMu' = "free" ELSE UNCHANGED <<outVars, recMu>>
  /\ logMu' = "free"
  /\ at' = [at EXCEPT ![l] = "quiet"]
  /\ UNCHANGED recVars

\* The size of the terminal is not known: logging that waits for the mutex of
\* logrus, held here.
LogSizeError(l) ==
  /\ at[l] = "write"
  /\ Tty
  /\ SizeFails
  /\ at' = [at EXCEPT ![l] = "error"]
  /\ UNCHANGED <<muVars, recVars, outVars>>

-----------------------------------------------------------------------------
ConnStep(x) ==
  \/ Lock(x) \/ Add(x) \/ Remove(x)
  \/ OnChange(x) \/ SizeError(x) \/ LogError(x) \/ TraceChange(x)

LogStep(l) == Log(l) \/ LogLock(l) \/ LogWrite(l) \/ LogSizeError(l)

RecNext ==
  \/ \E x \in Conns : ConnStep(x)
  \/ \E l \in Loggers : LogStep(l)

RecSpec == RecInit /\ [][RecNext]_recState

(***************************************************************************)
(* The mutexes of Go do not starve a waiter: hence strong fairness for the *)
(* steps that take one.                                                    *)
(***************************************************************************)
RecFairness ==
  /\ \A x \in Conns : SF_recState(ConnStep(x))
  /\ \A l \in Loggers : SF_recState(LogLock(l)) /\ WF_recState(LogWrite(l) \/ LogSizeError(l))

RecFairSpec == RecSpec /\ RecFairness

-----------------------------------------------------------------------------
RecTypeOK ==
  /\ at \in [Procs -> ConnPc \union LogPc]
  /\ recMu \in Procs \union {"free"}
  /\ logMu \in Procs \union {"free"}
  /\ connSize \in Int
  /\ addresses \in [Addrs -> Nat]
  /\ fatal \in BOOLEAN
  /\ output \in {"terminal", "file"}
  /\ rows \in Rows
  /\ lineCount \in Nat

\* The connections that are recorded.
Live == {x \in Conns : at[x] \in {"added", "addedError", "live", "remove"}}

(***************************************************************************)
(* The records are right at every moment: ConnSize and the count of every  *)
(* address are the numbers of live connections.                            *)
(***************************************************************************)
CountsRight ==
  /\ connSize = Cardinality(Live)
  /\ \A a \in Addrs : addresses[a] = Cardinality({x \in Live : AddrOf[x] = a})

(***************************************************************************)
(* "bad connection size" is never logged: a connection that ends finds its *)
(* address.                                                                *)
(***************************************************************************)
NoBadSize == ~fatal

(***************************************************************************)
(* The table leaves a row of the terminal free, so that clearing lineCount *)
(* lines before the next table clears all of it.                           *)
(***************************************************************************)
TableFits == rows >= 2 => lineCount < rows

(***************************************************************************)
(* The mutexes of the records and of logrus do not deadlock: a connection  *)
(* gets through its two updates, whoever logs meanwhile, unless the size   *)
(* of the terminal could not be read: the goroutine that logs that error   *)
(* waits for a mutex that it holds, or for a logger that waits for it.     *)
(***************************************************************************)
UpdateEnds ==
  \A x \in Conns :
    (at[x] = "new") ~>
      \/ at[x] = "over"
      \/ \E p \in Procs : at[p] \in {"addedError", "removedError", "error"}
=============================================================================
