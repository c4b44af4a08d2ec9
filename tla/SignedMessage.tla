---------------------------- MODULE SignedMessage ----------------------------
(***************************************************************************)
(* A signed message on its way from the application to a program: the      *)
(* intent around an amount that a form submitted (module AmountText).      *)
(*                                                                         *)
(* The SDK asks the wallet to sign an intent; wallets sign it as it is or  *)
(* inside one of three envelopes, and report what they signed in several   *)
(* ways; the account selected in the wallet may change meanwhile, and      *)
(* signWithWallet reads it before and after it waits for the signature.    *)
(* buildIntentInstruction then lays the signature,                         *)
(* the key and the signed bytes out in the data of an Ed25519 instruction; *)
(* the Ed25519 program verifies it, and solana-intents takes the signer    *)
(* and the message out of it.                                              *)
(*                                                                         *)
(* Bytes are a sequence of fields, each with its name, its content and its *)
(* length; the offsets are those of the code.                              *)
(***************************************************************************)
EXTENDS AmountText

CONSTANTS
  Keys,        \* public keys, ordered as numbers; 0 is none
  Extras,      \* extra values given to establishSession, 0 for none
  Followed,    \* bound: the submitted forms whose signing is explored
  MaxSigners,  \* bound: signers in an envelope
  MessageLen   \* length of an intent in bytes

ASSUME SignedMessageAssumption ==
  /\ Keys \subseteq Nat \ {0}
  /\ Extras \subseteq Nat /\ 0 \in Extras
  /\ {MaxSigners, MessageLen} \subseteq Nat \ {0}

VARIABLES
  phase,       \* "idle", "asked", "signing", "signed", "built", "done", "failed"
  asked,       \* walletPublicKey and the message, as the SDK asked for them
  extra,       \* the extra values the application gave
  selected,    \* the adapter's publicKey, NoKey when it is null
  wallet,      \* the account asked to sign (NoKey: an adapter outside the wallet
               \* standard), its signature and what it says it signed
  signed,      \* signedMessage
  data,        \* the instruction: its header and its bytes
  intent       \* what the program read

signing == <<phase, asked, extra, selected, wallet, signed, data, intent>>
mvars == <<field, signing>>

-----------------------------------------------------------------------------
(* Bytes *)

Field(what, is, len) == <<[what |-> what, is |-> is, len |-> len]>>

Length(bytes) == FoldLeft(LAMBDA n, f : n + f.len, 0, bytes)

(* slice_at: the fields at an offset that fill a length; a slice that cuts  *)
(* a field, or is out of bounds, is no value.                               *)
StartsAt(bytes, offset) == {i \in 1 .. Len(bytes) : Length(SubSeq(bytes, 1, i - 1)) = offset}
SliceAt(bytes, offset, len) ==
  {s \in {SubSeq(bytes, i, j) : i \in StartsAt(bytes, offset), j \in 1 .. Len(bytes)} :
     Length(s) = len}

HEADER_LEN == 16
PUBLIC_KEY_LEN == 32
SIGNATURE_LEN == 64
SIGNING_DOMAIN_LEN == 16

Text(m) == Field("text", m, MessageLen)
Domain(version) == Field("domain", 0, SIGNING_DOMAIN_LEN) \o Field("version", version, 1)
Signers(keys) ==
  Field("count", Len(keys), 1)
     \o [i \in 1 .. Len(keys) |-> [what |-> "key", is |-> keys[i], len |-> PUBLIC_KEY_LEN]]

(* The envelopes: what wallets and ledgers really sign. *)
Raw(m) == Text(m)
Legacy(m) == Domain(0) \o Field("format", 1, 1) \o Field("length", MessageLen, 2) \o Text(m)
V0(m, keys, format) ==
  Domain(0) \o Field("application", 0, 32) \o Field("format", format, 1)
     \o Signers(keys) \o Field("length", MessageLen, 2) \o Text(m)
V1(m, keys) == Domain(1) \o Signers(keys) \o Text(m)

Lists == UNION {[1 .. n -> Keys] : n \in 1 .. MaxSigners}

Envelopes(m) ==
  {Raw(m), Legacy(m)} \cup {V0(m, l, f) : l \in Lists, f \in {0, 1}}
     \cup {V1(m, l) : l \in Lists}

(* The list of signers: as many keys as the count that precedes them says.  *)
Counts(bytes) == {i \in 1 .. Len(bytes) : bytes[i].what = "count"}
KeysIn(bytes) ==
  IF Counts(bytes) = {} THEN <<>>
  ELSE LET c == CHOOSE i \in Counts(bytes) : TRUE
       IN SubSeq(bytes, c + 1, c + bytes[c].is)

Has(bytes, what) == \E f \in Range(bytes) : f.what = what

Verifies(key, signature, bytes) == signature.by = key /\ signature.over = bytes

-----------------------------------------------------------------------------
(* signWithWallet *)

(* What comes with the signature: nothing (an adapter outside the wallet    *)
(* standard), a single byte, the bare text, or the bytes that were signed.  *)
Report == {"none", "one byte", "text", "signed"}

NoKey == 0

(* addLegacyOffchainMessagePrefixToMessageIfNeeded: no value if it throws.  *)
addLegacyOffchainMessagePrefixToMessageIfNeeded(key, signature, m, bytes) ==
  IF Verifies(key, signature, bytes) THEN {bytes}
  ELSE IF bytes = Text(m) /\ Verifies(key, signature, Legacy(m)) THEN {Legacy(m)}
  ELSE {}

Reported(w, m) == IF w.report = "text" THEN Text(m) ELSE w.signature.over

(* The rest of signWithWallet, once the wallet has answered: the signature  *)
(* is verified only when bytes were reported and an account is selected,    *)
(* with the key of that account, which need not be the one that signed.     *)
signWithWallet(w, publicKey, m) ==
  IF w.report \in {"none", "one byte"} THEN {Raw(m)}
  ELSE IF publicKey = NoKey THEN {Reported(w, m)}
  ELSE addLegacyOffchainMessagePrefixToMessageIfNeeded(
         publicKey, w.signature, m, Reported(w, m))

-----------------------------------------------------------------------------
(* buildIntentInstruction *)

(* Mutant: the list of signers is taken to begin where version 0 has it.    *)
OffsetOfVersion0(bytes, key) ==
  LET found == {i \in 1 .. Len(KeysIn(bytes)) : KeysIn(bytes)[i].is = key}
  IN {SIGNING_DOMAIN_LEN + 1 + 32 + 1 + 1 + (i - 1) * PUBLIC_KEY_LEN :
        i \in {i \in found : \A j \in found : i <= j}}

(* getOffchainMessagePublicKeyOffset: where the wallet's key is in the list *)
(* of signers; nothing for bytes that are no envelope with signers, or when *)
(* the wallet is not among them.                                            *)
getOffchainMessagePublicKeyOffset(bytes, key) ==
  LET found == {i \in 1 .. Len(KeysIn(bytes)) : KeysIn(bytes)[i].is = key}
      base  == IF Has(bytes, "application")
               THEN SIGNING_DOMAIN_LEN + 1 + 32 + 1 + 1
               ELSE SIGNING_DOMAIN_LEN + 1 + 1
  IN {base + (i - 1) * PUBLIC_KEY_LEN : i \in {i \in found : \A j \in found : i <= j}}

(* buildEd25519InstructionWithOffsets: the key is not repeated, the header  *)
(* points into the message.                                                 *)
buildEd25519InstructionWithOffsets(signature, bytes, offset) ==
  [signatureOffset |-> HEADER_LEN,
   publicKeyOffset |-> HEADER_LEN + SIGNATURE_LEN + offset,
   messageOffset |-> HEADER_LEN + SIGNATURE_LEN,
   messageSize |-> Length(bytes),
   bytes |-> Field("header", 0, HEADER_LEN)
               \o Field("signature", signature, SIGNATURE_LEN) \o bytes]

(* Ed25519Program.createInstructionWithPublicKey of the Solana library. *)
createInstructionWithPublicKey(signature, bytes, key) ==
  [signatureOffset |-> HEADER_LEN + PUBLIC_KEY_LEN,
   publicKeyOffset |-> HEADER_LEN,
   messageOffset |-> HEADER_LEN + PUBLIC_KEY_LEN + SIGNATURE_LEN,
   messageSize |-> Length(bytes),
   bytes |-> Field("header", 0, HEADER_LEN) \o Field("key", key, PUBLIC_KEY_LEN)
               \o Field("signature", signature, SIGNATURE_LEN) \o bytes]

buildIntentInstruction(signature, bytes, key) ==
  LET offsets == getOffchainMessagePublicKeyOffset(bytes, key)
  IN IF offsets = {} THEN createInstructionWithPublicKey(signature, bytes, key)
     ELSE buildEd25519InstructionWithOffsets(signature, bytes, CHOOSE o \in offsets : TRUE)

-----------------------------------------------------------------------------
(* The Ed25519 program and solana-intents *)

KeyAt(d) == SliceAt(d.bytes, d.publicKeyOffset, PUBLIC_KEY_LEN)
SignatureAt(d) == SliceAt(d.bytes, d.signatureOffset, SIGNATURE_LEN)
MessageAt(d) == SliceAt(d.bytes, d.messageOffset, d.messageSize)

(* The transaction fails unless the signature is valid. *)
Ed25519Verifies(d) ==
  \E k \in KeyAt(d), s \in SignatureAt(d), m \in MessageAt(d) :
     /\ k[1].what = "key" /\ s[1].what = "signature"
     /\ Verifies(k[1].is, s[1].is, m)

InOrder(keys) == \A i, j \in 1 .. Len(keys) : i < j => keys[i].is < keys[j].is

(* Message::deserialize: version 0 must not claim to be printable ASCII (an *)
(* intent has line breaks), the signers of version 1 are in strict order;   *)
(* bytes with the signing domain that are no envelope are an error.         *)
MessageDeserialize(bytes) ==
  IF /\ \A i \in 1 .. Len(bytes) :
           bytes[i].what = "format" /\ Has(bytes, "application") => bytes[i].is = 1
     /\ (Has(bytes, "version") /\ ~Has(bytes, "format")) => InOrder(KeysIn(bytes))
  THEN {f.is : f \in {f \in Range(bytes) : f.what = "text"}}
  ELSE {}

(* Intent::load *)
IntentLoad(d) ==
  {[signer |-> k[1].is, message |-> t] :
      k \in KeyAt(d), t \in UNION {MessageDeserialize(m) : m \in MessageAt(d)}}

-----------------------------------------------------------------------------
NoMessage == [amount |-> <<>>, extra |-> 0]
Nothing == [account |-> NoKey, signature |-> [by |-> NoKey, over |-> <<>>], report |-> "none"]
NoData == [bytes |-> <<>>]

MInit ==
  /\ AmountInit
  /\ phase = "idle"
  /\ asked = [key |-> NoKey, message |-> NoMessage]
  /\ extra = 0
  /\ selected = NoKey
  /\ wallet = Nothing
  /\ signed = <<>>
  /\ data = NoData
  /\ intent = {}

(* buildIntentInstruction asks the wallet for a signature of the account    *)
(* that is selected: the text of the amount is part of the message.         *)
Ask(k, m) ==
  /\ phase = "idle"
  /\ requested # NotSubmitted
  /\ [form |-> form, decimals |-> decimals, max |-> max, text |-> text] \in Followed
  /\ asked' = [key |-> k, message |-> m]
  /\ selected' = k
  /\ phase' = "asked"
  /\ UNCHANGED <<field, wallet, signed, data, intent>>

(* buildStartSessionIntentInstruction: the message has the fields version   *)
(* to tokens; options.extra is not handed on to buildIntentInstruction.     *)
BuildStartSessionIntent(k, x) ==
  /\ form = "limits"
  /\ extra' = x
  /\ Ask(k, [amount |-> requested.text, extra |-> 0])

buildTransferIntentInstruction(k) ==
  /\ form = "send"
  /\ extra' = 0
  /\ Ask(k, [amount |-> requested.text, extra |-> 0])

(* The user selects another account, or disconnects; once the signature has *)
(* been looked at, the selected account is not read any more.               *)
SelectAccount(k) ==
  /\ phase \in {"asked", "signing", "signed"}
  /\ selected' = k
  /\ UNCHANGED <<field, phase, asked, extra, wallet, signed, data, intent>>

(* signWithWallet up to its await: a wallet of the standard is asked to     *)
(* sign with the account that is selected now, another adapter just signs.  *)
AskWallet ==
  /\ phase = "asked"
  /\ \E k \in {selected, NoKey} : wallet' = [Nothing EXCEPT !.account = k]
  /\ phase' = "signing"
  /\ UNCHANGED <<field, asked, extra, selected, signed, data, intent>>

(* The wallet answers; the signature may be no good.  Adapters outside the  *)
(* wallet standard sign with whatever account they have.  They, and wallets *)
(* that report one byte, sign the bare text; some ledgers sign the legacy   *)
(* envelope and report the text.                                            *)
WalletSigns ==
  /\ phase = "signing"
  /\ \E over \in Envelopes(asked.message), report \in Report :
       \E by \in {NoKey} \cup (IF wallet.account = NoKey THEN Keys ELSE {wallet.account}) :
         /\ report = "none" <=> wallet.account = NoKey
         /\ report \in {"none", "one byte"} => over = Raw(asked.message)
         /\ report = "text" => over \in {Raw(asked.message), Legacy(asked.message)}
         /\ wallet' = [account |-> wallet.account,
                       signature |-> [by |-> by, over |-> over], report |-> report]
  /\ phase' = "signed"
  /\ UNCHANGED <<field, asked, extra, selected, signed, data, intent>>

(* The wallet has no such account, refuses, or gives no result. *)
WalletThrows ==
  /\ phase \in {"asked", "signing"}
  /\ phase' = "failed"
  /\ UNCHANGED <<field, asked, extra, selected, wallet, signed, data, intent>>

BuildInstruction ==
  /\ phase = "signed"
  /\ \E bytes \in signWithWallet(wallet, selected, asked.message) :
        /\ signed' = bytes
        /\ data' = buildIntentInstruction(wallet.signature, bytes, asked.key)
  /\ phase' = "built"
  /\ UNCHANGED <<field, asked, extra, selected, wallet, intent>>

(* "The signature provided by the browser wallet is not valid" *)
SignatureRefused ==
  /\ phase = "signed"
  /\ signWithWallet(wallet, selected, asked.message) = {}
  /\ phase' = "done"
  /\ UNCHANGED <<field, asked, extra, selected, wallet, signed, data, intent>>

Execute ==
  /\ phase = "built"
  /\ intent' = IF Ed25519Verifies(data) THEN IntentLoad(data) ELSE {}
  /\ phase' = "done"
  /\ UNCHANGED <<field, asked, extra, selected, wallet, signed, data>>

MNext ==
  \/ (\E c \in Chars : Type(c)) /\ UNCHANGED signing
  \/ Erase /\ UNCHANGED signing
  \/ PressMax /\ UNCHANGED signing
  \/ Submit /\ UNCHANGED signing
  \/ \E k \in Keys, x \in Extras : BuildStartSessionIntent(k, x)
  \/ \E k \in Keys : buildTransferIntentInstruction(k)
  \/ \E k \in Keys \cup {NoKey} : SelectAccount(k)
  \/ AskWallet \/ WalletSigns \/ WalletThrows
  \/ BuildInstruction \/ SignatureRefused \/ Execute

MSpec == MInit /\ [][MNext]_mvars

-----------------------------------------------------------------------------
(* Properties *)

(* A signature that solana-intents can read: made with the key the SDK      *)
(* asked for, over an envelope that the program's own rules allow.          *)
Readable ==
  /\ wallet.signature.by = asked.key
  /\ MessageDeserialize(wallet.signature.over) # {}

(* The SDK does not refuse it: it is not verified, or verified with the key *)
(* that the SDK asked for.                                                  *)
NotRefused == wallet.report \in {"none", "one byte"} \/ selected = asked.key

(* Whatever happens between the form and the program, nothing is confused:  *)
(* whichever envelope the wallet chose, wherever its key is in the list of  *)
(* signers, however it reported the bytes and whatever account is selected  *)
(* before and after, the program reads the signer and the message the SDK   *)
(* asked for and in it the amount that the form submitted, or nothing; and  *)
(* it reads nothing from a signature by another account.  Nothing is lost   *)
(* either while the account asked for stays selected: a good signature is   *)
(* always read.  (A switch while the wallet signs can lose one:             *)
(* signWithWallet then verifies it with the key of the new account.)        *)
IntentReadBack ==
  phase = "done" =>
    /\ intent \subseteq
         IF Readable THEN {[signer |-> asked.key, message |-> asked.message]} ELSE {}
    /\ Readable /\ NotRefused => intent # {}
    /\ \A i \in intent : TryUiAmountIntoAmount(i.message.amount, decimals)
                             = {requested.amount} \cap 0 .. MaxU64

(* The extra values given to establishSession are in the message that the   *)
(* wallet signs and the program reads ("Validate and populate extra         *)
(* key-values appropriately in the start session intent message").          *)
ExtraIsSigned == \A i \in intent : i.message.extra = extra
=============================================================================
