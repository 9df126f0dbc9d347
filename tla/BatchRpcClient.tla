--------------------------- MODULE BatchRpcClient ---------------------------
(***************************************************************************)
(* Class BatchRpcClient (batch_rpc_requests.py) and how main() presents    *)
(* what it returns.  Each method builds a JSON-RPC batch, awaits one POST  *)
(* (batch_request) and then walks the responses.  main() awaits one call   *)
(* at a time, so a call is three steps: the batch is sent, the node        *)
(* replies, the method's loop runs on the reply.                           *)
(*                                                                         *)
(* A request is [id, subject]: the subject is what it asks about (an       *)
(* address, a block, a storage slot, or for mixed_batch_request the RPC    *)
(* method).  The node answers a request about s with the value of s, so a  *)
(* value is the subject it belongs to, and a value shown next to another   *)
(* subject is misattributed.  A reply is either an array of responses     *)
(* [id, val, ok] (ok FALSE: an "error" member instead of "result") or a    *)
(* single error object (rejected), which a node sends for an empty or     *)
(* rejected batch.                                                         *)
(***************************************************************************)
EXTENDS Integers, Sequences

LOCAL INSTANCE SequencesExt

CONSTANTS
    Keys,            \* addresses, block numbers and storage positions
    MaxBatch,        \* longest list passed to a batch method
    ServerReorders   \* the node may order a batch reply freely, as JSON-RPC 2.0 allows

ASSUME MaxBatch \in Nat /\ ServerReorders \in BOOLEAN

\* The flags of mixed_batch_request, in the order its ifs test them.
MixedOrder == <<"eth_chainId", "eth_gasPrice", "eth_blockNumber">>

Subjects == Keys \cup ToSet(MixedOrder)

KeyedMethods == {"balances", "blocks", "transactions", "storage"}

VARIABLES
    phase,      \* "idle", "sent" (awaiting the POST) or "replied"
    method,     \* the BatchRpcClient method being called
    batch,      \* the JSON array posted: <<[id, subject], ...>>
    rejected,   \* await response.json() is a single error object
    reply,      \* otherwise the array it returned
    raised,     \* the method raised instead of returning
    returned,   \* what the method returned
    shown       \* <<subject, value>> pairs main() prints for this call

vars == <<phase, method, batch, rejected, reply, raised, returned, shown>>

Response == [id : Nat, val : Subjects, ok : BOOLEAN]

TypeOK ==
    /\ phase \in {"idle", "sent", "replied"}
    /\ method \in KeyedMethods \cup {"mixed"}
    /\ batch \in Seq([id : 1..MaxBatch, subject : Subjects]) /\ Len(batch) <= MaxBatch
    /\ rejected \in BOOLEAN /\ raised \in BOOLEAN
    /\ reply \in Seq(Response) /\ Len(reply) <= Len(batch)
    /\ shown \subseteq Subjects \X Subjects

Init ==
    /\ phase = "idle"
    /\ method = "balances"
    /\ batch = <<>>
    /\ rejected = FALSE
    /\ reply = <<>>
    /\ raised = FALSE
    /\ returned = <<>>
    /\ shown = {}

\* for index, key in enumerate(keys): requests.append({..., "id": index + 1})
KeyedBatch(keys) == [i \in DOMAIN keys |-> [id |-> i, subject |-> keys[i]]]

\* mixed_batch_request: request_id starts at 1 and is incremented after each
\* request a flag adds, so the ids are 1, 2, ... in the order of the ifs.
MixedBatch(flags) ==
    LET names == SelectSeq(MixedOrder, LAMBDA f : f \in flags)
    IN  [i \in DOMAIN names |-> [id |-> i, subject |-> names[i]]]

\* The lists of distinct keys of length at most MaxBatch, the empty one too.
DistinctLists ==
    UNION {{f \in [1..n -> Keys] : \A i, j \in 1..n : i # j => f[i] # f[j]} : n \in 0..MaxBatch}

\* A new call starts with no reply and nothing returned or printed yet.
Fresh ==
    /\ rejected' = FALSE /\ reply' = <<>>
    /\ raised' = FALSE /\ returned' = <<>> /\ shown' = {}

\* A call of get_balances_batch, get_blocks_batch, get_transactions_batch
\* or get_storage_batch with a list of distinct keys.
CallKeyed(m, keys) ==
    /\ phase = "idle"
    /\ phase' = "sent"
    /\ method' = m
    /\ batch' = KeyedBatch(keys)
    /\ Fresh

\* A call of mixed_batch_request with the given flags set.
CallMixed(flags) ==
    /\ phase = "idle"
    /\ phase' = "sent"
    /\ method' = "mixed"
    /\ batch' = MixedBatch(flags)
    /\ Fresh

\* The orders in which the node may list the responses.
Orders(n) ==
    IF ServerReorders THEN {f \in [1..n -> 1..n] : \A i, j \in 1..n : i # j => f[i] # f[j]}
    ELSE {[i \in 1..n |-> i]}

\* The node answers every request of a non-empty batch, each with a result
\* or an error, in an order it chooses.
ReplyArray ==
    /\ phase = "sent" /\ batch # <<>>
    /\ \E order \in Orders(Len(batch)), ok \in [1..Len(batch) -> BOOLEAN] :
          reply' = [i \in 1..Len(batch) |->
                      [id |-> batch[order[i]].id, val |-> batch[order[i]].subject,
                       ok |-> ok[i]]]
    /\ rejected' = FALSE
    /\ phase' = "replied"
    /\ UNCHANGED <<method, batch, raised, returned, shown>>

\* The node rejects the batch as a whole: one error object, not an array.
ReplyErrorObject ==
    /\ phase = "sent"
    /\ rejected' = TRUE
    /\ reply' = <<>>
    /\ phase' = "replied"
    /\ UNCHANGED <<method, batch, raised, returned, shown>>

\* The positions of the responses that carry a "result".
OkPositions == SelectSeq([i \in DOMAIN reply |-> i], LAMBDA i : reply[i].ok)

\* A faulty pairing that drops the errors first and then pairs the values
\* with the addresses by position, as the other batch methods' lists are.
CollectBalancesCompacted ==
    [k \in DOMAIN OkPositions |-> <<batch[k].subject, reply[OkPositions[k]].val>>]

\* get_balances_batch after the await: for index, address in
\* enumerate(addresses): if "result" in responses[index], pair them.  (On an
\* error object responses[0] raises KeyError, see Collect.)
CollectBalances ==
    [k \in DOMAIN OkPositions |->
            <<batch[OkPositions[k]].subject, reply[OkPositions[k]].val>>]

\* A faulty loop that stops at the first error instead of skipping it.
CollectValuesUntilError ==
    LET firstErr == {i \in DOMAIN reply : ~reply[i].ok}
         stop == IF firstErr = {} THEN Len(reply) + 1
                 ELSE CHOOSE i \in firstErr : \A j \in firstErr : i <= j
    IN  [k \in 1..(stop - 1) |-> reply[k].val]

\* get_blocks_batch, get_transactions_batch, get_storage_batch: for response
\* in responses: if "result" in response, append the result.  Iterating an
\* error object walks its keys, none of which contains "result": [].
CollectValues ==
    IF rejected THEN <<>>
    ELSE [k \in DOMAIN OkPositions |-> reply[OkPositions[k]].val]

\* What main() prints of a returned list ret, as <<subject, value>>:
\* balances as (address, balance); storage as "Position idx: value" with idx
\* the index in the returned list, naming positions[idx]; blocks by their
\* own number field.  Transactions and mixed results name no subject.
Presented(ret) ==
    CASE method = "balances" -> ToSet(ret)
      [] method = "storage"  -> {<<batch[k].subject, ret[k]>> : k \in DOMAIN ret}
      [] method = "blocks"   -> {<<v, v>> : v \in ToSet(ret)}
      [] OTHER               -> {}

\* The method's loop over the reply once the await returns, then main()
\* printing the result (or catching the exception).
Collect ==
    /\ phase = "replied"
    /\ phase' = "idle"
    /\ raised' = (method = "balances" /\ rejected)
    /\ returned' = CASE raised'             -> <<>>
                    [] method = "balances" -> CollectBalances
                    [] method = "mixed"    -> reply
                    [] OTHER               -> CollectValues
    /\ shown' = Presented(returned')
    /\ UNCHANGED <<method, batch, rejected, reply>>

Next ==
    \/ \E m \in KeyedMethods, keys \in DistinctLists : CallKeyed(m, keys)
    \/ \E flags \in SUBSET ToSet(MixedOrder) : CallMixed(flags)
    \/ ReplyArray
    \/ ReplyErrorObject
    \/ Collect

Spec == Init /\ [][Next]_vars

-----------------------------------------------------------------------------
\* The values the last call handed back, whatever their shape.
ReturnedValues ==
    IF method = "balances" THEN {returned[k][2] : k \in DOMAIN returned}
    ELSE ToSet(returned)

(***************************************************************************)
(* get_balances_batch pairs every balance with the address it belongs to:  *)
(* main() never prints an address next to another address's balance,      *)
(* whatever mix of results and errors the node returns.  It indexes the    *)
(* responses by the position of the request, so this rests on the node     *)
(* keeping the batch order.                                                *)
(***************************************************************************)
BalancesAttributed == method = "balances" => \A p \in shown : p[1] = p[2]

(***************************************************************************)
(* main() prints get_storage_batch's values as "Position idx: value" with  *)
(* idx the index in positions, and says an error in one request does not   *)
(* affect the others (batch_rpc_requests.py:303): each value it prints is  *)
(* the value of the slot it names.                                         *)
(***************************************************************************)
StorageAttributed == method = "storage" => \A p \in shown : p[1] = p[2]

(***************************************************************************)
(* An error in one request does not affect the others: once a batch       *)
(* method has walked an array reply, every result the node returned is    *)
(* in what the method returned, however the errors fall.                  *)
(***************************************************************************)
ResultsDelivered ==
    (phase = "idle" /\ method # "mixed" /\ ~rejected) =>
        \A i \in DOMAIN reply : reply[i].ok => reply[i].val \in ReturnedValues

=============================================================================
