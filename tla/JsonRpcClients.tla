--------------------------- MODULE JsonRpcClients ---------------------------
(***************************************************************************)
(* The blocking JSON-RPC clients: BalanceChecker (balance_checker.py) as   *)
(* its main() drives it, TransactionSender (transaction_sender.py):        *)
(* send_raw_transaction and wait_for_receipt, and its main(), and          *)
(* NornRPCClient (basic_rpc.py) as its main() drives it.  All go through  *)
(* a _make_request that posts one request, lets requests' exceptions and  *)
(* raise_for_status propagate, and returns the decoded JSON body.  The    *)
(* node answers each request in one of three ways:                         *)
(*   "raise"  : the POST fails or the status is an HTTP error;             *)
(*   "error"  : a JSON-RPC error object, with no "result" member;          *)
(*   "result" : a result, the node's value at that moment.                 *)
(* The programs share no state, so their steps commute: a behaviour is    *)
(* one run of balance_checker.py's main() beside one send-and-wait, or    *)
(* one run of basic_rpc.py's or transaction_sender.py's main().           *)
(***************************************************************************)
EXTENDS Integers, Sequences

CONSTANTS
    Accounts,     \* the address list main() passes to check_multiple_accounts
    Balances,     \* balances (wei) the node may report
    MaxRetries,   \* wait_for_receipt's max_retries
    None,         \* Python None (a JSON null result)
    NotHex,       \* a result text that is not hex
    Block,        \* a block object (eth_getBlockByNumber's result)
    Empty         \* "" or {}: the .get defaults that are falsy

\* The blocks track_balance_history asks about, in its order.
Blocks == <<"0x0", "0x1", "latest">>

Outcomes == {"result", "error", "raise"}

ASSUME Len(Accounts) > 0
ASSUME Balances \subseteq Nat /\ MaxRetries \in Nat \ {0}

VARIABLES
    bcPc,       \* BalanceChecker main(): "history", "accounts" or "done"
    bcIdx,      \* the index of the loop's next block or address
    history,    \* track_balance_history's dict: block -> wei, or None
    results,    \* check_multiple_accounts' dict: address -> [status, wei]
    asked,      \* ghost: what the node said to each get_balance, by key
    mined,      \* the node has the transaction in a block
    txPc,       \* "send", "rejected", then wait_for_receipt: "poll", "sleep",
                \* "returned" or "raised"
    attempt,    \* its loop variable
    ret,        \* what it returned: "receipt" or None
    polls,      \* ghost: per poll, <<outcome, mined at that moment>>
    program,    \* the program this behaviour runs
    rdShown,    \* the lines a read-only main() has printed, one per step
    rdAsked,    \* ghost: per step, the node's [outcome, value]
    rdDone      \* that main() has passed its last step

bcVars == <<bcPc, bcIdx, history, results, asked>>
txVars == <<mined, txPc, attempt, ret, polls>>
rdVars == <<rdShown, rdAsked, rdDone>>
vars == <<bcVars, txVars, program, rdVars>>

\* The main() programs that are a run of reads, each in its own try, and
\* how each step reads its result:
\*   "text"  : .get("result", "") printed as it is;
\*   "block" : .get("result", {}), then "if block:" found or not found;
\*   "hex"   : .get("result", ""), then int(x, 16) if x else 0;
\*   "hex0x" : .get("result", "0x0"), then int(x, 16).
ReadSteps ==
    [basic_rpc          |-> <<"text", "text", "block", "hex", "hex", "hex">>,
     transaction_sender |-> <<"hex0x", "hex0x">>]

Programs == {"clients"} \cup DOMAIN ReadSteps

\* The results the node may give to a step of a kind.
NodeValues(kind) ==
    CASE kind = "block" -> {Block, None}
      [] kind = "text"  -> Balances \cup {None}
      [] OTHER          -> Balances \cup {None, NotHex}

\* A printed line: a value read, "found" / "not found", or "Error: ...".
Line == [said : {"value", "found", "not_found", "error"},
         value : Balances \cup {None, Empty}]

TypeOK ==
    /\ bcPc \in {"history", "accounts", "done"}
    /\ bcIdx \in 1..Len(Accounts) + 1
    /\ DOMAIN history \subseteq {Blocks[i] : i \in 1..3}
    /\ \A b \in DOMAIN history : history[b] \in Balances \cup {None}
    /\ \A a \in DOMAIN results : results[a] \in [status : {"ok", "err"}, wei : Balances]
    /\ \A k \in DOMAIN asked : asked[k] \in [outcome : Outcomes, value : Balances \cup {None, NotHex}]
    /\ mined \in BOOLEAN
    /\ txPc \in {"send", "rejected", "poll", "sleep", "returned", "raised"}
    /\ attempt \in 0..MaxRetries - 1
    /\ ret \in {"receipt", None}
    /\ polls \in Seq(Outcomes \X BOOLEAN) /\ Len(polls) <= MaxRetries
    /\ program \in Programs
    /\ rdShown \in Seq(Line) /\ rdDone \in BOOLEAN
    /\ rdAsked \in Seq([outcome : Outcomes, value : Balances \cup {None, NotHex, Block}])

Init ==
    /\ bcPc = "history" /\ bcIdx = 1
    /\ history = <<>> /\ results = <<>> /\ asked = <<>>
    /\ mined = FALSE
    /\ txPc = "send" /\ attempt = 0 /\ ret = None /\ polls = <<>>
    /\ program \in Programs
    /\ rdShown = <<>> /\ rdAsked = <<>> /\ rdDone = FALSE

\* Add or overwrite one key of a dict.
Put(f, k, v) == [x \in DOMAIN f \cup {k} |-> IF x = k THEN v ELSE f[x]]

\* A faulty get_balance that reports a reply without a result as -1.
GetBalanceSentinel(outcome, value) ==
    CASE outcome = "error"  -> -1
      [] value \in Balances -> value
      [] OTHER              -> None

\* get_balance(address, block): _make_request's exception propagates, and
\* int(result.get("result", "0x0"), 16) reads a reply without a result as
\* balance 0 and raises on a null or non-hex result.  None: it raised.
GetBalance(outcome, value) ==
    CASE outcome = "error"  -> 0
      [] value \in Balances -> value
      [] OTHER              -> None

-----------------------------------------------------------------------------
(***************************************************************************)
(* BalanceChecker, in the order main() calls it: track_balance_history on  *)
(* the first account, then check_multiple_accounts on the list.            *)
(***************************************************************************)

\* One pass of track_balance_history's loop: get_balance(address, block);
\* the bare except stores None for the block.
HistoryStep ==
    /\ program = "clients" /\ bcPc = "history"
    /\ LET b == Blocks[bcIdx]
       IN  \E o \in Outcomes, v \in Balances \cup {None, NotHex} :
              /\ o # "result" => v = None
              /\ history' = Put(history, b, GetBalance(o, v))
              /\ asked' = Put(asked, b, [outcome |-> o, value |-> v])
    /\ IF bcIdx = Len(Blocks)
       THEN bcPc' = "accounts" /\ bcIdx' = 1
       ELSE bcPc' = "history" /\ bcIdx' = bcIdx + 1
    /\ UNCHANGED <<results, txVars, program, rdVars>>

\* A faulty loop with the try around the whole for: the first exception
\* ends check_multiple_accounts and the remaining addresses get no entry.
AccountsStepAbortOnRaise(o, v) ==
    LET a == Accounts[bcIdx]
        wei == GetBalance(o, v)
    IN  /\ results' = Put(results, a, IF wei = None THEN [status |-> "err", wei |-> 0]
                                      ELSE [status |-> "ok", wei |-> wei])
        /\ asked' = Put(asked, a, [outcome |-> o, value |-> v])
        /\ IF bcIdx = Len(Accounts) \/ wei = None
           THEN bcPc' = "done" /\ bcIdx' = bcIdx
           ELSE bcPc' = "accounts" /\ bcIdx' = bcIdx + 1

\* One pass of check_multiple_accounts' loop: get_balance(address) stored
\* with status "✅"; an exception stores the error with status "❌" (its
\* wei is left at 0 here: the code stores the message instead).
AccountsStep(o, v) ==
    LET a == Accounts[bcIdx]
        wei == GetBalance(o, v)
    IN  /\ results' = Put(results, a, IF wei = None THEN [status |-> "err", wei |-> 0]
                                      ELSE [status |-> "ok", wei |-> wei])
        /\ asked' = Put(asked, a, [outcome |-> o, value |-> v])
        /\ IF bcIdx = Len(Accounts)
           THEN bcPc' = "done" /\ bcIdx' = bcIdx
           ELSE bcPc' = "accounts" /\ bcIdx' = bcIdx + 1

CheckAccount ==
    /\ program = "clients" /\ bcPc = "accounts"
    /\ \E o \in Outcomes, v \in Balances \cup {None, NotHex} :
          (o # "result" => v = None) /\ AccountsStep(o, v)
    /\ UNCHANGED <<history, txVars, program, rdVars>>

-----------------------------------------------------------------------------
(***************************************************************************)
(* TransactionSender: send_raw_transaction, then                           *)
(* wait_for_receipt(tx_hash, max_retries) for the hash it returned.  The   *)
(* node may include the transaction at any moment after taking it.         *)
(***************************************************************************)

\* send_raw_transaction(signed_tx): an exception propagates; a reply with
\* an "error" member raises "Transaction failed"; otherwise the hash is
\* returned and the caller waits for its receipt.
Send ==
    /\ program = "clients" /\ txPc = "send"
    /\ \E o \in Outcomes :
          txPc' = CASE o = "result" -> "poll"
                    [] o = "error"  -> "rejected"
                    [] o = "raise"  -> "raised"
    /\ UNCHANGED <<bcVars, mined, attempt, ret, polls, program, rdVars>>

\* The node includes the transaction in a block: only one it took, which
\* a request that failed on the way back (a timeout) may have been.
Mine ==
    /\ program = "clients" /\ txPc \notin {"send", "rejected"}
    /\ ~mined
    /\ mined' = TRUE
    /\ UNCHANGED <<bcVars, txPc, attempt, ret, polls, program, rdVars>>

\* get_transaction_receipt: result.get("result"), None for a pending
\* transaction and for an error reply alike; an exception leaves the loop.
Poll ==
    /\ program = "clients" /\ txPc = "poll"
    /\ \E o \in Outcomes :
          /\ polls' = Append(polls, <<o, mined>>)
          /\ CASE o = "raise"            -> txPc' = "raised" /\ UNCHANGED ret
               [] o = "result" /\ mined  -> txPc' = "returned" /\ ret' = "receipt"
               [] OTHER                  -> txPc' = "sleep" /\ UNCHANGED ret
    /\ UNCHANGED <<bcVars, mined, attempt, program, rdVars>>

\* A faulty loop bound, range(max_retries - 1).
LastAttemptEarly(a) == a + 2 >= MaxRetries

\* The for over range(max_retries) has no attempt after a.
LastAttempt(a) == a + 1 = MaxRetries

\* time.sleep(retry_delay), then the next attempt, or return None after
\* the last one.
Sleep ==
    /\ program = "clients" /\ txPc = "sleep"
    /\ IF LastAttempt(attempt)
       THEN txPc' = "returned" /\ ret' = None /\ UNCHANGED attempt
       ELSE txPc' = "poll" /\ attempt' = attempt + 1 /\ UNCHANGED ret
    /\ UNCHANGED <<bcVars, mined, polls, program, rdVars>>

-----------------------------------------------------------------------------
(***************************************************************************)
(* The read-only main()s of basic_rpc.py and transaction_sender.py: each   *)
(* step is one getter call in its own try, whose except prints the error. *)
(***************************************************************************)

\* The line a step prints for the node's reply: "raise" is caught by the
\* step's except; int() of None raises TypeError and of a non-hex text
\* ValueError, caught the same way.
Shown(kind, outcome, value) ==
    LET got == IF outcome = "result" THEN value
               ELSE IF kind = "hex0x" THEN 0 ELSE Empty
        Printed(what) == [said |-> what, value |-> None]
    IN  CASE outcome = "raise"                          -> Printed("error")
          [] kind = "text"                              -> [said |-> "value", value |-> got]
          [] kind = "block" /\ got \in {None, Empty}     -> Printed("not_found")
          [] kind = "block"                             -> Printed("found")
          [] kind = "hex" /\ got \in {None, Empty}       -> [said |-> "value", value |-> 0]
          [] got \in Balances                           -> [said |-> "value", value |-> got]
          [] OTHER                                      -> Printed("error")

\* One step of main(): the getter's request, its reading of the result,
\* and the printed line; the next step runs whatever this one printed.
ReadStep(o, v) ==
    LET line == Shown(ReadSteps[program][Len(rdShown) + 1], o, v)
    IN  /\ rdShown' = Append(rdShown, line)
        /\ rdAsked' = Append(rdAsked, [outcome |-> o, value |-> v])
        /\ rdDone' = (Len(rdShown) + 1 = Len(ReadSteps[program]))

Read ==
    /\ program \in DOMAIN ReadSteps /\ ~rdDone
    /\ \E o \in Outcomes, v \in NodeValues(ReadSteps[program][Len(rdShown) + 1]) :
          (o # "result" => v = None) /\ ReadStep(o, v)
    /\ UNCHANGED <<bcVars, txVars, program>>

Next == HistoryStep \/ CheckAccount \/ Send \/ Mine \/ Poll \/ Sleep \/ Read

Spec == Init /\ [][Next]_vars

-----------------------------------------------------------------------------
\* The node's reply r failed the request: it raised, or a numeric reading
\* ("hex" or "hex0x", as get_balance reads) of its result cannot succeed.
ReplyFailed(kind, r) ==
    \/ r.outcome = "raise"
    \/ kind \in {"hex", "hex0x"} /\ r.outcome = "result" /\ r.value = NotHex
    \/ kind = "hex0x" /\ r.outcome = "result" /\ r.value = None

(***************************************************************************)
(* One failing request does not disturb the others: once balance_checker  *)
(* main() is past both loops, every block of track_balance_history and    *)
(* every address of check_multiple_accounts has its entry, and once       *)
(* basic_rpc's or transaction_sender's main() has run, every step printed *)
(* its line; and an entry or line records a failure (None, status "❌",   *)
(* "Error:") only when that key's or step's own request failed.           *)
(***************************************************************************)
FailuresIsolated ==
    /\ rdDone =>
          /\ Len(rdShown) = Len(ReadSteps[program])
          /\ \A i \in 1..Len(rdShown) :
                rdShown[i].said = "error" => ReplyFailed(ReadSteps[program][i], rdAsked[i])
    /\ bcPc = "done" =>
          /\ \A i \in 1..3 :
                /\ Blocks[i] \in DOMAIN history
                /\ history[Blocks[i]] = None => ReplyFailed("hex0x", asked[Blocks[i]])
          /\ \A i \in DOMAIN Accounts :
                /\ Accounts[i] \in DOMAIN results
                /\ results[Accounts[i]].status = "err" => ReplyFailed("hex0x", asked[Accounts[i]])

(***************************************************************************)
(* wait_for_receipt gives up (returns None) only after polling            *)
(* max_retries times without being handed the receipt.                    *)
(***************************************************************************)
GaveUpOnlyAfterAllPolls ==
    (txPc = "returned" /\ ret = None) =>
        /\ Len(polls) = MaxRetries
        /\ \A i \in 1..Len(polls) : ~(polls[i][1] = "result" /\ polls[i][2])

(***************************************************************************)
(* What main() prints as read is what the node holds: balance_checker     *)
(* shows "✅" next to the balance the node holds for that address, and    *)
(* basic_rpc and transaction_sender print a number, or "Block not found",  *)
(* only from a result the node gave.                                       *)
(***************************************************************************)
StatusTruthful ==
    /\ \A a \in DOMAIN results :
          results[a].status = "ok" => results[a].wei = asked[a].value
    /\ \A i \in 1..Len(rdShown) :
          /\ rdShown[i].said = "value" /\ rdShown[i].value \in Balances =>
                rdAsked[i].outcome = "result"
          /\ rdShown[i].said = "not_found" => rdAsked[i].outcome = "result"

=============================================================================
