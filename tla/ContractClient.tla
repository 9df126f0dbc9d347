--------------------------- MODULE ContractClient ---------------------------
(***************************************************************************)
(* Class ContractClient and main() (contract_interaction.py).              *)
(*                                                                         *)
(* The three readers (call_function, get_storage_at, get_code) post one   *)
(* JSON-RPC request with aiohttp and take the body apart the same way:    *)
(* "result" wins, then "error" raises "RPC Error", anything else raises   *)
(* "Unexpected response format"; a failed POST or undecodable body raises *)
(* from aiohttp.  The node's reply is one of the Replies below.           *)
(*                                                                         *)
(* ABI data is hex text.  A text is a sequence of characters: the hex     *)
(* digits as their values 0..15 and the letter x as X; case is not        *)
(* represented, so lower() leaves a text as it is.  An ABI word is        *)
(* WordDigits hex digits (64 in the code: 32 bytes).                      *)
(***************************************************************************)
EXTENDS Integers, Sequences, SequencesExt

CONSTANTS
    WordDigits,   \* zfill's width: 64 in the code
    Recipients,   \* addresses passed to encode_erc20_transfer, as texts
    Amounts,      \* int(amount_wei) of the amounts passed to it
    Accounts,     \* account addresses passed to get_erc20_balance, as texts
    Codes,        \* the "result" texts the node may give to eth_getCode
    None          \* Python None (a JSON null result)

X == 16
HexChars == 0..15 \cup {X}

\* What the node's reply to a request is.
Replies == {"result", "error", "other", "raise"}

\* "0x" and the two selectors: transfer(address,uint256) = a9059cbb,
\* balanceOf(address) = 70a08231.
Prefix0x == <<0, X>>
TransferSelector == <<10, 9, 0, 5, 9, 12, 11, 11>>
BalanceOfSelector == <<7, 0, 10, 0, 8, 2, 3, 1>>

ASSUME WordDigits \in Nat \ {0}
ASSUME Amounts \subseteq Int
ASSUME Recipients \cup Accounts \cup Codes \subseteq Seq(HexChars)

VARIABLES
    pc,       \* main(): "code", "encode" or "done"
    shown,    \* what example 1 printed: [said, bytes]
    encoded,  \* example 2's encoded_data, or None when it raised
    api,      \* the latest direct call of a reader: [method, data, reply, outcome]
    input     \* ghost: example 2's <<recipient, amount>>, or None

vars == <<pc, shown, encoded, api, input>>

-----------------------------------------------------------------------------
(* The string conversions. *)

\* str.replace("0x", ""): every occurrence, scanning left to right without
\* rescanning what it produced.
RECURSIVE Strip0x(_)
Strip0x(s) ==
    IF Len(s) < 2 THEN s
    ELSE IF SubSeq(s, 1, 2) = Prefix0x THEN Strip0x(SubSeq(s, 3, Len(s)))
    ELSE <<s[1]>> \o Strip0x(Tail(s))

\* str.zfill(w): zeros on the left up to w characters; a longer text is
\* returned whole.  (Its sign handling applies to a leading + or -, which
\* no text here has.)
\* A faulty zfill that pads one character short.
ZFillShort(s, w) == IF Len(s) >= w - 1 THEN s ELSE [i \in 1..w - 1 - Len(s) |-> 0] \o s

ZFill(s, w) == IF Len(s) >= w THEN s ELSE [i \in 1..w - Len(s) |-> 0] \o s

\* The hex digits of n >= 0, most significant first, "0" for 0.
RECURSIVE HexDigits(_)
HexDigits(n) == IF n < 16 THEN <<n>> ELSE Append(HexDigits(n \div 16), n % 16)

\* hex(n)[2:]: hex(n) is "0x..." and, for n < 0, "-0x...", so the slice
\* leaves the digits, or "x" and the digits of -n.
PyHexTail(n) == IF n >= 0 THEN HexDigits(n) ELSE <<X>> \o HexDigits(-n)

\* .lower().replace("0x", "").zfill(64): the address word.
AddressWord(address) == ZFill(Strip0x(address), WordDigits)

\* encode_erc20_transfer(recipient, amount_wei).
EncodeErc20Transfer(recipient, amount) ==
    Prefix0x \o TransferSelector \o AddressWord(recipient)
             \o ZFill(PyHexTail(amount), WordDigits)

\* get_erc20_balance's data: f"0x70a08231{padded_address}".
BalanceOfData(account) == Prefix0x \o BalanceOfSelector \o AddressWord(account)

\* int(s, 16) of a text of hex digits.
HexValue(s) == FoldLeft(LAMBDA acc, d : 16 * acc + d, 0, s)

IsHex(s) == \A i \in 1..Len(s) : s[i] < 16

\* decode_uint256: int(cleaned, 16) if cleaned else 0; int() raises on a
\* text that is not hex (None here).
DecodeUint256(s) ==
    LET cleaned == Strip0x(s)
    IN  IF cleaned = <<>> THEN 0 ELSE IF IsHex(cleaned) THEN HexValue(cleaned) ELSE None

\* The reader's tail: what it does with the reply's body.
ReadReply(reply, value) ==
    CASE reply = "result" -> [outcome |-> "returned", value |-> value]
      [] reply = "error"  -> [outcome |-> "rpc_error", value |-> None]
      [] reply = "other"  -> [outcome |-> "unexpected", value |-> None]
      [] reply = "raise"  -> [outcome |-> "raised", value |-> None]

-----------------------------------------------------------------------------
\* A line of example 1 that shows no byte count.
Said(what) == [said |-> what, bytes |-> 0]

TypeOK ==
    /\ pc \in {"code", "encode", "done"}
    /\ shown \in [said : {"none", "not_contract", "contract", "error"}, bytes : Nat]
    /\ encoded \in Seq(HexChars) \cup {None}
    /\ api = None \/ api.data \in Seq(HexChars)
    /\ input \in (Recipients \X Amounts) \cup {None}

Init ==
    /\ pc = "code" /\ shown = Said("none") /\ encoded = None
    /\ api = None /\ input = None

\* Example 1: code = await client.get_code(...); "0x" is no contract,
\* anything else a contract of (len(code) - 2) // 2 bytes; every
\* exception, the readers' and len(None)'s, prints the error.
CheckCode ==
    /\ pc = "code"
    /\ \E reply \in Replies, code \in Codes \cup {None} :
          LET r == ReadReply(reply, code)
          IN  shown' = CASE r.outcome # "returned" -> Said("error")
                         [] r.value = None         -> Said("error")
                         [] r.value = Prefix0x     -> Said("not_contract")
                         [] OTHER -> [said |-> "contract",
                                      bytes |-> (Len(r.value) - 2) \div 2]
    /\ pc' = "encode"
    /\ UNCHANGED <<encoded, api, input>>

\* Example 2: encoded_data = client.encode_erc20_transfer(recipient,
\* amount_wei).  int(amount_wei) of a text that is not a decimal number
\* raises ValueError, which the example's except prints.
EncodeTransfer ==
    /\ pc = "encode"
    /\ \/ \E r \in Recipients, a \in Amounts :
             /\ encoded' = EncodeErc20Transfer(r, a)
             /\ input' = <<r, a>>
       \/ /\ encoded' = None
          /\ UNCHANGED input
    /\ pc' = "done"
    /\ UNCHANGED <<shown, api>>

\* get_erc20_balance(token, account): call_function with the balanceOf
\* data; the raw result text is returned (or the reader raises).
GetErc20Balance ==
    /\ \E account \in Accounts, reply \in Replies, value \in Codes :
          api' = [method |-> "eth_call", account |-> account,
                  data |-> BalanceOfData(account),
                  reply |-> reply, outcome |-> ReadReply(reply, value).outcome]
    /\ UNCHANGED <<pc, shown, encoded, input>>

\* get_storage_at(contract, position): the position is passed as given.
GetStorageAt ==
    /\ \E reply \in Replies, value \in Codes :
          api' = [method |-> "eth_getStorageAt", account |-> None, data |-> <<>>,
                  reply |-> reply, outcome |-> ReadReply(reply, value).outcome]
    /\ UNCHANGED <<pc, shown, encoded, input>>

Next == CheckCode \/ EncodeTransfer \/ GetErc20Balance \/ GetStorageAt

Spec == Init /\ [][Next]_vars

-----------------------------------------------------------------------------
\* Data that is 0x, a selector and k words of hex digits.
WellFormed(data, selector, k) ==
    /\ Len(data) = 10 + k * WordDigits
    /\ SubSeq(data, 1, 10) = Prefix0x \o selector
    /\ IsHex(SubSeq(data, 3, Len(data)))

\* The k-th word of such data.
Word(data, k) == SubSeq(data, 11 + (k - 1) * WordDigits, 10 + k * WordDigits)

\* An address that is hex digits (after stripping 0x) and fits a word; an
\* amount that is a uint of the word's width (uint256 in the code).
AddressFits(a) == IsHex(Strip0x(a)) /\ Len(Strip0x(a)) <= WordDigits
AmountFits(n) == 0 <= n /\ n < 16 ^ WordDigits

(***************************************************************************)
(* The calldata encode_erc20_transfer and get_erc20_balance build is a    *)
(* selector followed by whole 32-byte words exactly when their arguments  *)
(* fit a word, and then each word decodes (decode_uint256) back to its    *)
(* argument.  Neither checks its arguments: a negative or too large       *)
(* amount, or a too long address, must come out as malformed data and     *)
(* never as well-formed data that means another call.                     *)
(***************************************************************************)
CallDataExact ==
    /\ input # None =>
          LET r == input[1]
              a == input[2]
          IN  /\ WellFormed(encoded, TransferSelector, 2) <=> AddressFits(r) /\ AmountFits(a)
              /\ AddressFits(r) /\ AmountFits(a) =>
                    /\ DecodeUint256(Word(encoded, 1)) = HexValue(Strip0x(r))
                    /\ DecodeUint256(Word(encoded, 2)) = a
    /\ api # None /\ api.method = "eth_call" =>
          /\ WellFormed(api.data, BalanceOfSelector, 1) <=> AddressFits(api.account)
          /\ AddressFits(api.account) =>
                DecodeUint256(Word(api.data, 1)) = HexValue(Strip0x(api.account))

=============================================================================
