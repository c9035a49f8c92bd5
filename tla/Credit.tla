------------------------------- MODULE Credit -------------------------------
(***************************************************************************)
(* credit.Credit: the ledger a node keeps of what it sent to and received  *)
(* from every account, in LevelDB.  Each operation reads a record, changes *)
(* its copy and writes the copy back; there is no lock, and the callers    *)
(* (one goroutine per stream, the cache actor, one goroutine per peer in   *)
(* the client's downloads) run concurrently, so the read and the write     *)
(* are separate steps.                                                     *)
(*                                                                         *)
(* An absent record reads as the zero record, so absence needs no value of *)
(* its own.  So does every record when LevelDB reports an error, and the   *)
(* error of a write is ignored.  A malformed public key makes CheckCredit  *)
(* refuse before the ledger is read: that changes nothing and is a         *)
(* stuttering step.                                                        *)
(***************************************************************************)
EXTENDS Integers

CONSTANTS
    Handlers,       \* concurrent callers
    Accounts,       \* keys of the ledger
    Ops,            \* operations this process calls: a cache node's are "send",
                    \* "receive", "isLimited", "check"; a client's "receive", "pay"
    Legacy,         \* accounts whose stored JSON does not fit RecordItem
    Sizes,          \* sizes of the files served to an account
    Orders,         \* fragments an order pays for: value / price
    FragmentSize,   \* types.FragmentSize
    ResourceLimit,  \* Credit.ResourceLimit
    Modulus,        \* 2^64
    MaxBytes        \* bound: charged or credited to an account; counters may wrap below it

ASSUME CreditAssumption ==
    /\ Ops \subseteq {"send", "receive", "isLimited", "check", "pay"}
    /\ Legacy \subseteq Accounts
    /\ Modulus \in Nat \ {0}
    /\ Sizes \subseteq 0 .. Modulus - 1
    /\ Orders \subseteq 0 .. Modulus - 1
    /\ FragmentSize \in 0 .. Modulus - 1
    /\ MaxBytes \in Nat
    /\ ResourceLimit \in 0 .. Modulus - 1

VARIABLES
    db,          \* the stored record of each account
    pc,          \* each handler: "idle", or the operation whose write is due
    acc,         \* the account of the operation in progress
    reg,         \* the record it has read, still to be changed and written
    amt,         \* AddCreditPoint: the resource, negative when sent
    verdict,     \* what CheckCredit or IsLimited returned in the last step
    charged,     \* ghost: bytes the completed calls added to SentResource
    credited,    \* ghost: bytes the completed calls added to ReceivedResource
    disturbed    \* ghost: accounts on which two operations have overlapped or
                 \* LevelDB has failed

vars == <<db, pc, acc, reg, amt, verdict, charged, credited, disturbed>>

-----------------------------------------------------------------------------
(* uint64 arithmetic and the record. *)

Add64(x, y) == IF x + y < Modulus THEN x + y ELSE x + y - Modulus

Sub64(x, y) == IF x >= y THEN x - y ELSE x - y + Modulus

\* The conversion int(x), and Go's remainder, which has the sign of x.
Int64(x) == IF x < Modulus \div 2 THEN x ELSE x - Modulus

Rem3(x) == IF x >= 0 THEN x % 3 ELSE -((-x) % 3)

\* recv + 1 is zero: the division of Level panics.
Overflows(recv) == Add64(recv, 1) = 0

\* Mutant: the modulo is forgotten.
LevelUnreduced(sent, recv) == 1 + Int64(sent \div Add64(recv, 1))

Level(sent, recv) == 1 + Rem3(Int64(sent \div Add64(recv, 1)))

\* bad: json.Unmarshal fails on the stored value, after it has filled in the
\* fields that fit.  PutCreditRecord always stores a value that decodes.
Record(sent, recv, level, bad) ==
    [sent |-> sent, recv |-> recv, level |-> level, bad |-> bad]

\* The record r, written back as it was read.
Stored(r) == Record(r.sent, r.recv, r.level, FALSE)

\* The record after n bytes are sent to, or received from, the account.
Sent(r, n) ==
    LET s == Add64(r.sent, n) IN Record(s, r.recv, Level(s, r.recv), FALSE)

Received(r, n) ==
    LET v == Add64(r.recv, n) IN Record(r.sent, v, Level(r.sent, v), FALSE)

\* GetCreditRecord's second result: TRUE exactly when decoding failed.
GetOk(r) == r.bad

calcLimit(r) ==
    LET debt == Sub64(r.sent, r.recv) IN
    IF debt > ResourceLimit
    THEN [limit |-> Sub64(debt, ResourceLimit), over |-> TRUE]
    ELSE [limit |-> IF r.sent > r.recv
                    THEN Sub64(ResourceLimit, debt)
                    ELSE Sub64(r.recv, Sub64(r.sent, ResourceLimit)),
          over  |-> FALSE]

Zero == Record(0, 0, 0, FALSE)

\* What op returned, and the counters of the record it judged.
Verdict(op, granted, limit, r) ==
    [op |-> op, granted |-> granted, limit |-> limit,
     sent |-> r.sent, recv |-> r.recv]

NoVerdict == Verdict("none", TRUE, 0, Zero)

\* Handlers between a read of a's record and the matching write.
InFlight(a) == {h \in Handlers : pc[h] # "idle" /\ acc[h] = a}

-----------------------------------------------------------------------------
Init ==
    /\ db \in [Accounts -> [sent : Sizes \cup {0}, recv : Sizes \cup {0},
                            level : {0}, bad : BOOLEAN]]
    /\ \A a \in Accounts : IF a \in Legacy THEN db[a].bad
                                           ELSE db[a] = Zero
    /\ pc = [h \in Handlers |-> "idle"]
    /\ acc \in [Handlers -> Accounts]
    /\ reg = [h \in Handlers |-> Zero]
    /\ amt = [h \in Handlers |-> 0]
    /\ verdict = NoVerdict
    /\ charged = [a \in Accounts |-> db[a].sent]
    /\ credited = [a \in Accounts |-> db[a].recv]
    /\ disturbed = {}

\* The record that is read, and the zero record if LevelDB reports an error.
Reads(a) == {db[a], Zero}

\* GetCreditRecord(a) by handler h gives r; h goes on at pc `next`.
Get(h, a, r, next) ==
    /\ pc[h] = "idle"
    /\ pc' = [pc EXCEPT ![h] = next]
    /\ acc' = [acc EXCEPT ![h] = a]
    /\ reg' = [reg EXCEPT ![h] = r]
    /\ disturbed' = IF InFlight(a) = {} /\ r = db[a] THEN disturbed
                                                     ELSE disturbed \cup {a}

\* The operation returns and its locals are gone.
Done(h) ==
    /\ pc' = [pc EXCEPT ![h] = "idle"]
    /\ reg' = [reg EXCEPT ![h] = Zero]
    /\ amt' = [amt EXCEPT ![h] = 0]
    /\ UNCHANGED acc

\* PutCreditRecord(acc[h], r), always the last thing an operation does; an error
\* is ignored.
Put(h, r) ==
    /\ \/ /\ db' = [db EXCEPT ![acc[h]] = r]
          /\ UNCHANGED disturbed
       \/ /\ disturbed' = disturbed \cup {acc[h]}
          /\ UNCHANGED db
    /\ Done(h)

AddCreditPoint(h, a, resource) ==
    /\ \E r \in Reads(a) : Get(h, a, r, "add")
    /\ amt' = [amt EXCEPT ![h] = resource]
    /\ verdict' = NoVerdict
    /\ UNCHANGED <<db, charged, credited>>

\* ReceivedResource after AddCreditPoint has added the resource n.
AddedTo(h, n) == Add64(reg[h].recv, IF n < 0 THEN 0 ELSE n)

\* Mutant: the bytes received are added to SentResource too.
AddCreditPointPutWrongField(h) ==
    LET n == amt[h] IN
    /\ pc[h] = "add"
    /\ ~Overflows(AddedTo(h, n))
    /\ charged[acc[h]] - n <= MaxBytes
    /\ credited[acc[h]] + n <= MaxBytes
    /\ Put(h, Sent(reg[h], IF n < 0 THEN -n ELSE n))
    /\ charged' = [charged EXCEPT ![acc[h]] = IF n < 0 THEN @ - n ELSE @]
    /\ credited' = [credited EXCEPT ![acc[h]] = IF n < 0 THEN @ ELSE @ + n]
    /\ verdict' = NoVerdict

AddCreditPointPut(h) ==
    LET n == amt[h] IN
    /\ pc[h] = "add"
    /\ ~Overflows(AddedTo(h, n))
    /\ \/ /\ n < 0
          /\ charged[acc[h]] - n <= MaxBytes
          /\ Put(h, Sent(reg[h], -n))
          /\ charged' = [charged EXCEPT ![acc[h]] = @ - n]
          /\ UNCHANGED credited
       \/ /\ n >= 0
          /\ credited[acc[h]] + n <= MaxBytes
          /\ Put(h, Received(reg[h], n))
          /\ credited' = [credited EXCEPT ![acc[h]] = @ + n]
          /\ UNCHANGED charged
    /\ verdict' = NoVerdict

IsLimited(h, a) ==
    /\ "isLimited" \in Ops
    /\ \E r \in Reads(a) : Get(h, a, r, IF GetOk(r) THEN "calcLimit" ELSE "newLimit")
    /\ verdict' = NoVerdict
    /\ UNCHANGED <<db, amt, charged, credited>>

\* Mutant: an unknown account is initialised with a zero record, not with
\* the record that was read.
IsLimitedPutReset(h) ==
    /\ pc[h] = "newLimit"
    /\ Put(h, Zero)
    /\ verdict' = Verdict("isLimited", TRUE, ResourceLimit, reg[h])
    /\ UNCHANGED <<charged, credited>>

IsLimitedPut(h) ==
    /\ pc[h] = "newLimit"
    /\ Put(h, Stored(reg[h]))
    /\ verdict' = Verdict("isLimited", TRUE, ResourceLimit, reg[h])
    /\ UNCHANGED <<charged, credited>>

IsLimitedCalc(h) ==
    LET c == calcLimit(reg[h]) IN
    /\ pc[h] = "calcLimit"
    /\ verdict' = Verdict("isLimited", ~c.over, c.limit, reg[h])
    /\ Done(h)
    /\ UNCHANGED <<db, charged, credited, disturbed>>

CheckCredit(h, a) ==
    /\ "check" \in Ops
    /\ \E r \in Reads(a) : Get(h, a, r, IF GetOk(r) THEN "order" ELSE "newCheck")
    /\ verdict' = NoVerdict
    /\ UNCHANGED <<db, amt, charged, credited>>

CheckCreditNewPut(h) ==
    /\ pc[h] = "newCheck"
    /\ Put(h, Stored(reg[h]))
    /\ verdict' = Verdict("check", TRUE, 0, reg[h])
    /\ UNCHANGED <<charged, credited>>

\* No order came with the request, CheckCreditOrder fails, or its value or
\* the price is not a number.
CheckCreditNoOrder(h) ==
    /\ pc[h] = "order"
    /\ verdict' = Verdict("check", ~calcLimit(reg[h]).over, 0, reg[h])
    /\ Done(h)
    /\ UNCHANGED <<db, charged, credited, disturbed>>

\* CheckCreditOrder accepts an order worth n fragments.
CheckCreditOrder(h, n) ==
    LET r == Received(reg[h], n) IN
    /\ pc[h] = "order"
    /\ ~Overflows(Add64(reg[h].recv, n))
    /\ credited[acc[h]] + n <= MaxBytes
    /\ Put(h, r)
    /\ verdict' = Verdict("check", ~calcLimit(r).over, 0, r)
    /\ credited' = [credited EXCEPT ![acc[h]] = @ + n]
    /\ UNCHANGED charged

PaymentCreditBill(h, a) ==
    /\ "pay" \in Ops
    /\ \E r \in Reads(a) : Get(h, a, r, "pay")
    /\ verdict' = NoVerdict
    /\ UNCHANGED <<db, amt, charged, credited>>

\* CreateCreditOrder fails, or the value or the price is not a number.
PaymentCreditBillFails(h) ==
    /\ pc[h] = "pay"
    /\ Done(h)
    /\ verdict' = NoVerdict
    /\ UNCHANGED <<db, charged, credited, disturbed>>

\* The order is on the chain: n fragments are paid for.
PaymentCreditBillPut(h, n) ==
    /\ pc[h] = "pay"
    /\ ~Overflows(reg[h].recv)
    /\ charged[acc[h]] + n <= MaxBytes
    /\ Put(h, Sent(reg[h], n))
    /\ charged' = [charged EXCEPT ![acc[h]] = @ + n]
    /\ verdict' = NoVerdict
    /\ UNCHANGED credited

\* The process dies and starts again: the calls in progress are lost.
Dies ==
    /\ pc' = [h \in Handlers |-> "idle"]
    /\ reg' = [h \in Handlers |-> Zero]
    /\ amt' = [h \in Handlers |-> 0]
    /\ verdict' = NoVerdict
    /\ UNCHANGED <<db, acc, charged, credited, disturbed>>

Crash == (\E h \in Handlers : pc[h] # "idle") /\ Dies

\* The division by ReceivedResource + 1 panics, which no caller recovers.
Panic(h) ==
    /\ \/ pc[h] = "add" /\ Overflows(AddedTo(h, amt[h]))
       \/ pc[h] = "order" /\ \E n \in Orders : Overflows(Add64(reg[h].recv, n))
       \/ pc[h] = "pay" /\ Overflows(reg[h].recv)
    /\ Dies

Call(h, a) ==
    \/ "send" \in Ops /\ \E n \in Sizes : AddCreditPoint(h, a, -n)
    \/ "receive" \in Ops /\ AddCreditPoint(h, a, FragmentSize)
    \/ IsLimited(h, a)
    \/ CheckCredit(h, a)
    \/ PaymentCreditBill(h, a)

Finish(h) ==
    \/ AddCreditPointPut(h)
    \/ IsLimitedPut(h)
    \/ IsLimitedCalc(h)
    \/ CheckCreditNewPut(h)
    \/ CheckCreditNoOrder(h)
    \/ PaymentCreditBillFails(h)
    \/ \E n \in Orders : CheckCreditOrder(h, n) \/ PaymentCreditBillPut(h, n)

Next ==
    \/ Crash
    \/ \E h \in Handlers : Finish(h) \/ Panic(h) \/ \E a \in Accounts : Call(h, a)

Spec == Init /\ [][Next]_vars

-----------------------------------------------------------------------------
(* Properties *)

RecordType == [sent : 0 .. Modulus - 1, recv : 0 .. Modulus - 1,
               level : -1 .. 3, bad : BOOLEAN]

\* Records hold uint64 counters and a level of at most LEVEL_UNTRUST whatever the
\* sequence of calls; a quotient of 2^63 or more is a negative int, and gives
\* LEVEL_OWNER or -1.
TypeOK ==
    /\ db \in [Accounts -> RecordType]
    /\ pc \in [Handlers -> {"idle", "add", "newLimit", "calcLimit", "newCheck",
                            "order", "pay"}]
    /\ acc \in [Handlers -> Accounts]
    /\ reg \in [Handlers -> RecordType]
    /\ amt \in [Handlers -> Int]
    /\ charged \in [Accounts -> Nat]
    /\ credited \in [Accounts -> Nat]
    /\ disturbed \subseteq Accounts

\* However the unlocked reads and writes interleave, whichever of them fail,
\* wherever the process dies and where the counters wrap, the ledger never shows
\* an account more than the completed calls added: updates are lost, never
\* invented or repeated.
NeverOvercharged ==
    \A a \in Accounts : /\ db[a].sent <= charged[a]
                        /\ db[a].recv <= credited[a]

\* Losing updates takes an overlap or an error of LevelDB: an account on which no
\* two operations ever overlapped and none failed has the exact record, modulo
\* 2^64, also after a crash between a read and a write.
ExactUndisturbed ==
    \A a \in Accounts \ disturbed : /\ db[a].sent = charged[a] % Modulus
                                    /\ db[a].recv = credited[a] % Modulus

\* config.yaml:47, "The number of free downloads allowed for users":
\* CheckCredit grants no request of an account whose recorded debt is over
\* the limit.
OverLimitRefused ==
    verdict.op = "check" /\ verdict.granted =>
        verdict.sent - verdict.recv <= ResourceLimit

=============================================================================
