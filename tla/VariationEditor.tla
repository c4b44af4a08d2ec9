--------------------------- MODULE VariationEditor ---------------------------
(***************************************************************************)
(* The editor of transaction variations in paymaster-admin: a form or code *)
(* (TOML or JSON) for the instructions of a variation, saved to and        *)
(* deleted from the database by server actions, and a tester that sends    *)
(* the edited variation to /api/validate-transaction.                      *)
(*                                                                         *)
(* Several editors are open at once: of the same row in two tabs, of       *)
(* different rows, and of a row still to be created.  All their requests   *)
(* overlap with editing.                                                   *)
(***************************************************************************)
EXTENDS FiniteSets, Naturals

CONSTANTS
  Editors,
  Target,       \* row of each editor; None creates one
  Ids,          \* rows
  Contents,     \* valid lists of instructions
  Nil,          \* the empty one
  Bad,          \* anything that does not parse or validate
  Fields,       \* values of name, gas and fee
  Blank,        \* a value that the server refuses
  Inputs,       \* transactions to test
  Requests,     \* tests on the server; also the names of temporary files
  Setups,       \* what happens in a behaviour
  MaxChanges,   \* bound: changes typed into the editors
  None

(* The editors on the page, the buttons that are pressed, the languages     *)
(* of the code that is typed, the rows that may be of version 0, and how    *)
(* often the user types                                                     *)
Setup == [editors : SUBSET Editors, calls : SUBSET {"save", "delete", "test"},
          langs : SUBSET {"toml", "json"}, old : SUBSET Ids,
          changes : 0 .. MaxChanges]

ASSUME EditorAssumption ==
  /\ Setups \subseteq Setup
  /\ Target \in [Editors -> Ids \cup {None}] /\ None \notin Ids \cup Requests
  /\ Nil \in Contents /\ Bad \notin Contents
  /\ Blank \notin Fields
  /\ MaxChanges \in Nat

VARIABLES
  setup,        \* never changes
  rows,         \* the table, with what was shown when a row was last saved
  used,         \* ids that have been used
  v0,           \* rows of version 0; no operation changes a version
  ed,           \* editors
  changes,      \* number of changes typed
  saves, dels,  \* their calls under way
  tester,       \* tester of each editor
  requests,     \* tests on the server
  files         \* temporary files: path -> variation

db == <<setup, rows, used, v0>>
testing == <<tester, requests, files>>
vars == <<db, ed, changes, saves, dels, testing>>

-----------------------------------------------------------------------------
(* Texts: a language and what it says. *)

Text(json, c) == [lang |-> IF json THEN "json" ELSE "toml", body |-> c]
Empty == [lang |-> "none", body |-> Bad]
Texts == {Empty} \cup [lang : setup.langs, body : Contents \cup {Bad}]

(* TransactionVariations.parse of the JSON or of the TOML *)
Parse(json, text) == IF text.lang = Text(json, Bad).lang THEN text.body ELSE Bad

isV1(e) == Target[e] \notin v0

-----------------------------------------------------------------------------
(* The editor *)

NewRow == [content |-> Nil, field |-> Blank]

Mounted(e, row) ==
  [mounted |-> TRUE, expanded |-> FALSE, json |-> FALSE,
   mode |-> IF isV1(e) THEN "form" ELSE "code",
   code |-> IF Target[e] = None THEN Empty ELSE Text(~isV1(e), row.content),
   instructions |-> IF isV1(e) THEN row.content ELSE Nil,
   field |-> row.field, error |-> FALSE, run |-> "base", prop |-> row]

(* What a pane shows, and what the server gets of it. *)
Active(s) == IF s.mode = "form" THEN s.instructions ELSE Parse(s.json, s.code)

baselineCode(e) ==
  IF Target[e] = None THEN Empty
  ELSE Text(~isV1(e) \/ ed[e].json, ed[e].prop.content)

isDirty(e) ==
  \/ ed[e].field # ed[e].prop.field
  \/ ed[e].mode = "form" /\ ed[e].instructions # ed[e].prop.content
  \/ ed[e].mode = "code" /\ ed[e].code # baselineCode(e)

variationForTest(e) ==
  LET s == ed[e]
      c == IF isV1(e) THEN Active(s) ELSE Parse(TRUE, s.code)
  IN IF c = Bad THEN None ELSE [id |-> Target[e], content |-> c, field |-> s.field]

NoTester == [input |-> None, validatedInput |-> None, validatedVariation |-> None,
             request |-> None, result |-> None]

(* Both set or clear the error that the editor shows. *)
validateCode(s) == [s EXCEPT !.error = Parse(s.json, s.code) = Bad]
validateInstructions(s) == [s EXCEPT !.error = s.instructions = Bad]

(* A change is rendered: variationForTest validates the code again and gives *)
(* a new variation another id; the tester belongs to the pane.              *)
Rendered(e, s) ==
  IF isV1(e) /\ s.mode = "code" /\ s.code # Empty THEN validateCode(s) ELSE s

TesterAfter(e, s) ==
  IF ~s.mounted \/ ~s.expanded \/ s.mode # ed[e].mode THEN NoTester
  ELSE IF Target[e] = None THEN [tester[e] EXCEPT !.validatedVariation = None]
  ELSE tester[e]

Edit(e, s) ==
  /\ ed' = [ed EXCEPT ![e] = Rendered(e, s)]
  /\ tester' = [tester EXCEPT ![e] = TesterAfter(e, s)]
  /\ UNCHANGED <<db, saves, dels, requests, files>>

Open(e) == ed[e].mounted /\ ed[e].expanded

handleEditClick(e) ==
  /\ ed[e].mounted /\ ~ed[e].expanded
  /\ ed' = [ed EXCEPT ![e].expanded = TRUE]
  /\ UNCHANGED <<changes, db, saves, dels, testing>>

handleCloseClick(e) ==
  /\ Open(e)
  /\ ed' = [ed EXCEPT ![e].expanded = FALSE]
  /\ tester' = [tester EXCEPT ![e] = NoTester]
  /\ UNCHANGED <<changes, db, saves, dels, requests, files>>

(* A change typed by the user *)
Type(e, s) ==
  /\ Open(e)
  /\ changes < setup.changes /\ changes' = changes + 1
  /\ Edit(e, s)

EnterField(e, f) == f # ed[e].field /\ Type(e, [ed[e] EXCEPT !.field = f])

handleCodeChange(e, text) ==
  /\ ed[e].mode = "code" /\ text # ed[e].code
  /\ Type(e, validateCode([ed[e] EXCEPT !.code = text]))

handleFormInstructionsChange(e, c) ==
  /\ ed[e].mode = "form" /\ c # ed[e].instructions
  /\ Type(e, validateInstructions([ed[e] EXCEPT !.instructions = c]))

(* An empty list becomes TOML, in JSON mode too. *)
handleSwitchToCode(e) ==
  /\ Open(e) /\ ed[e].mode = "form"
  /\ UNCHANGED changes
  /\ LET s == ed[e]
     IN Edit(e, IF s.instructions = Bad THEN validateInstructions(s)
                ELSE [s EXCEPT !.code = Text(s.json /\ s.instructions # Nil, s.instructions),
                               !.error = FALSE, !.mode = "code"])

handleSwitchToForm(e) ==
  /\ Open(e) /\ isV1(e) /\ ed[e].mode = "code"
  /\ UNCHANGED changes
  /\ LET s == ed[e]
         c == Parse(s.json, s.code)
     IN Edit(e, IF s.code = Empty THEN [s EXCEPT !.instructions = Nil, !.mode = "form"]
                ELSE IF c = Bad THEN validateCode(s)
                ELSE [s EXCEPT !.error = FALSE, !.instructions = c, !.mode = "form"])

handleEditJsonClick(e) ==
  /\ Open(e) /\ isV1(e) /\ ed[e].mode = "code" /\ "json" \in setup.langs
  /\ UNCHANGED changes
  /\ LET s == ed[e]
         c == Parse(s.json, s.code)
     IN Edit(e, IF s.code = Empty THEN [s EXCEPT !.json = ~@]
                ELSE IF c = Bad THEN validateCode(s)
                ELSE [s EXCEPT !.json = ~@, !.error = FALSE, !.code = Text(~s.json, c)])

-----------------------------------------------------------------------------
(* Saving *)

(* The values that the call closes over *)
Values(s) == [mode |-> s.mode, json |-> s.json, code |-> s.code,
              instructions |-> s.instructions, field |-> s.field]

NoSave == [st |-> "idle", with |-> None, shown |-> None, ok |-> FALSE]

(* The Save button; the call keeps the values of this rendering. *)
handleSubmit(e) ==
  /\ "save" \in setup.calls
  /\ Open(e) /\ isV1(e) /\ isDirty(e)
  /\ ed[e].run # "running" /\ ~ed[e].error
  /\ saves[e].st = "idle"
  /\ saves' = [saves EXCEPT ![e] =
       [st |-> "token", with |-> Values(ed[e]), ok |-> FALSE,
        shown |-> [content |-> Active(ed[e]), field |-> ed[e].field]]]
  /\ ed' = [ed EXCEPT ![e].run = "running"]
  /\ UNCHANGED <<changes, db, dels, testing>>

(* The log-in token is there: what was to be saved is validated, which sets *)
(* the error that the editor shows by now.                                  *)
wrappedCreateOrUpdateVariation(e) ==
  /\ saves[e].st = "token"
  /\ LET bad == Active(saves[e].with) = Bad
     IN /\ saves' = [saves EXCEPT ![e].st = IF bad THEN "answer" ELSE "posted"]
        /\ ed' = [ed EXCEPT ![e].error = IF ed[e].run = "running" THEN bad ELSE @]
  /\ UNCHANGED <<changes, db, dels, testing>>

Answer(e, ok) == saves' = [saves EXCEPT ![e].st = "answer", ![e].ok = ok]

Stored(e) ==
  LET w == saves[e].with
  IN [content |-> Active(w), field |-> w.field, shown |-> saves[e].shown]

(* Mutant: a row that is missing is inserted. *)
UpsertVariation(e) ==
  /\ saves[e].st = "posted" /\ Target[e] # None /\ saves[e].with.field # Blank
  /\ rows' = [rows EXCEPT ![Target[e]] = Stored(e)]
  /\ Answer(e, TRUE)
  /\ UNCHANGED <<changes, setup, used, v0, ed, dels, testing>>

updateVariation(e) ==
  /\ saves[e].st = "posted" /\ Target[e] # None /\ saves[e].with.field # Blank
  /\ rows[Target[e]] # None
  /\ rows' = [rows EXCEPT ![Target[e]] = Stored(e)]
  /\ Answer(e, TRUE)
  /\ UNCHANGED <<changes, setup, used, v0, ed, dels, testing>>

createVariation(e) ==
  /\ saves[e].st = "posted" /\ Target[e] = None /\ saves[e].with.field # Blank
  /\ \E id \in Ids \ used :
       /\ rows' = [rows EXCEPT ![id] = Stored(e)]
       /\ used' = used \cup {id}
  /\ Answer(e, TRUE)
  /\ UNCHANGED <<changes, setup, v0, ed, dels, testing>>

(* The session, the fields or the row are refused, or a request fails. *)
createOrUpdateVariationThrows(e) ==
  /\ saves[e].st \in {"token", "posted"}
  /\ Answer(e, FALSE)
  /\ UNCHANGED <<changes, db, ed, dels, testing>>

(* A new variation's form is cleared, whatever it holds by now. *)
resetForm(s) ==
  [s EXCEPT !.field = Blank, !.code = Empty, !.instructions = Nil, !.error = FALSE]

SaveSucceeds(e) ==
  /\ saves[e].st = "answer" /\ saves[e].ok
  /\ saves' = [saves EXCEPT ![e] = NoSave]
  /\ IF ed[e].run = "running"
     THEN LET s == [ed[e] EXCEPT !.run = "complete", !.expanded = FALSE]
          IN /\ ed' = [ed EXCEPT ![e] = IF Target[e] = None THEN resetForm(s) ELSE s]
             /\ tester' = [tester EXCEPT ![e] = NoTester]
     ELSE UNCHANGED <<ed, tester>>
  /\ UNCHANGED <<changes, db, dels, requests, files>>

(* It failed, or it was stored and the answer is lost. *)
SaveFails(e) ==
  /\ saves[e].st = "answer"
  /\ saves' = [saves EXCEPT ![e] = NoSave]
  /\ ed' = [ed EXCEPT ![e].run = IF @ = "running" THEN "error" ELSE @]
  /\ UNCHANGED <<changes, db, dels, testing>>

(* useUserData is revalidated: the row that the editor is compared with is  *)
(* renewed, what was typed is not; an editor comes and goes with its row.   *)
Revalidate(e) ==
  LET row == rows[Target[e]]
      seen == [content |-> row.content, field |-> row.field]
      s == IF row = None THEN [ed[e] EXCEPT !.mounted = FALSE, !.expanded = FALSE, !.run = "base"]
           ELSE IF ed[e].mounted THEN [ed[e] EXCEPT !.prop = seen]
           ELSE Mounted(e, seen)
  IN /\ Target[e] # None
     /\ s # ed[e]
     /\ ed' = [ed EXCEPT ![e] = s]
     /\ tester' = [tester EXCEPT ![e] = TesterAfter(e, s)]
     /\ UNCHANGED <<changes, db, saves, dels, requests, files>>

-----------------------------------------------------------------------------
(* Deleting *)

PressDelete(e) ==
  /\ "delete" \in setup.calls
  /\ ed[e].mounted /\ Target[e] # None /\ dels[e] = "idle"
  /\ dels' = [dels EXCEPT ![e] = "posted"]
  /\ UNCHANGED <<changes, db, ed, saves, testing>>

deleteVariation(e) ==
  /\ dels[e] = "posted" /\ rows[Target[e]] # None
  /\ rows' = [rows EXCEPT ![Target[e]] = None]
  /\ dels' = [dels EXCEPT ![e] = "idle"]
  /\ UNCHANGED <<changes, setup, used, v0, ed, saves, testing>>

deleteVariationThrows(e) ==
  /\ dels[e] = "posted"
  /\ dels' = [dels EXCEPT ![e] = "idle"]
  /\ UNCHANGED <<changes, db, ed, saves, testing>>

-----------------------------------------------------------------------------
(* Testing *)

handleTransactionChange(e, i) ==
  /\ "test" \in setup.calls
  /\ Open(e) /\ i # tester[e].input
  /\ tester' = [tester EXCEPT ![e].input = i]
  /\ UNCHANGED <<changes, db, ed, saves, dels, requests, files>>

NoRequest == [st |-> "idle", input |-> None, variation |-> None, path |-> None,
              mixed |-> FALSE, result |-> None]

PressTest(e, q) ==
  /\ "test" \in setup.calls
  /\ Open(e) /\ requests[q].st = "idle"
  /\ tester[e].request = None /\ tester[e].input # None /\ variationForTest(e) # None
  /\ tester' = [tester EXCEPT ![e] =
       [@ EXCEPT !.validatedInput = tester[e].input,
                 !.validatedVariation = variationForTest(e),
                 !.request = q, !.result = None]]
  /\ requests' = [requests EXCEPT ![q] =
       [NoRequest EXCEPT !.st = "sent", !.input = tester[e].input,
                         !.variation = variationForTest(e)]]
  /\ UNCHANGED <<changes, db, ed, saves, dels, files>>

(* What the page shows next to the button, a verdict as well as an error:   *)
(* the transaction and the variation that it is about, and whether other    *)
(* tests used the file it was found with.                                   *)
Result(r, variation, mixed) == [input |-> r.input, variation |-> variation, mixed |-> mixed]

(* The tests that use a file, from when they name it until the validator    *)
(* has read it.                                                             *)
Using(p) == {r \in Requests : requests[r].st \in {"write", "exec"} /\ requests[r].path = p}

(* The file is named after the clock: two tests that the server receives in *)
(* the same millisecond use one file.                                       *)
TempPath(q) ==
  /\ requests[q].st = "sent"
  /\ \E p \in Requests :
       requests' = [r \in Requests |->
         IF r = q THEN [requests[r] EXCEPT !.st = "write", !.path = p,
                                           !.mixed = Using(p) # {}]
         ELSE IF r \in Using(p) THEN [requests[r] EXCEPT !.mixed = TRUE]
         ELSE requests[r]]
  /\ UNCHANGED <<changes, db, ed, saves, dels, tester, files>>

(* Tests that write one file at once may leave a mixture in it. *)
writeFile(q) ==
  /\ requests[q].st = "write"
  /\ requests' = [requests EXCEPT ![q].st = "exec"]
  /\ \E v \in {requests[q].variation} \cup (IF requests[q].mixed THEN {Bad} ELSE {}) :
       files' = [files EXCEPT ![requests[q].path] = v]
  /\ UNCHANGED <<changes, db, ed, saves, dels, tester>>

(* The validator's verdict, or its error, is about what it reads; without a *)
(* file to read it is an error about the variation that was sent.           *)
execValidator(q) ==
  /\ requests[q].st = "exec"
  /\ LET r    == requests[q]
         read == IF files[r.path] = None THEN r.variation ELSE files[r.path]
     IN requests' = [requests EXCEPT ![q].st = "unlink", ![q].result = Result(r, read, r.mixed)]
  /\ UNCHANGED <<changes, db, ed, saves, dels, tester, files>>

(* The body is refused (400), the input cannot be parsed or the file cannot *)
(* be written.                                                              *)
TestThrows(q) ==
  /\ requests[q].st \in {"sent", "write"}
  /\ requests' = [requests EXCEPT ![q].st = "answer",
                      ![q].result = Result(requests[q], requests[q].variation, FALSE)]
  /\ UNCHANGED <<changes, db, ed, saves, dels, tester, files>>

(* The file is removed; if it is gone the request throws, and the answer is *)
(* an error instead.                                                        *)
unlink(q) ==
  /\ requests[q].st = "unlink"
  /\ LET r == requests[q]
     IN /\ requests' = [requests EXCEPT ![q].st = "answer",
              ![q].result = IF files[r.path] = None THEN Result(r, r.variation, FALSE) ELSE @]
        /\ files' = [files EXCEPT ![r.path] = None]
  /\ UNCHANGED <<changes, db, ed, saves, dels, tester>>

(* The tester that asked, if it is still there, shows the answer. *)
TestAnswered(q) ==
  /\ requests[q].st = "answer"
  /\ requests' = [requests EXCEPT ![q] = NoRequest]
  /\ tester' = [e \in Editors |->
       IF tester[e].request = q
       THEN [tester[e] EXCEPT !.request = None, !.result = requests[q].result]
       ELSE tester[e]]
  /\ UNCHANGED <<changes, db, ed, saves, dels, files>>

(* The connection fails: the tester shows an error, the server goes on. *)
FetchFails(e) ==
  /\ tester[e].request # None
  /\ LET r == requests[tester[e].request]
     IN tester' = [tester EXCEPT ![e].request = None,
                                 ![e].result = Result(r, r.variation, FALSE)]
  /\ UNCHANGED <<changes, db, ed, saves, dels, requests, files>>

(* Mutant: only the input is compared. *)
InputMatches(e) == tester[e].input = tester[e].validatedInput

showResult(e) ==
  /\ tester[e].input = tester[e].validatedInput
  /\ variationForTest(e) # None
  /\ variationForTest(e) = tester[e].validatedVariation

-----------------------------------------------------------------------------
Init ==
  /\ setup \in Setups
  /\ v0 \in SUBSET setup.old
  /\ \E c \in Contents \ {Nil}, f \in Fields :
       LET row == [content |-> c, field |-> f]
           saved == [content |-> c, field |-> f, shown |-> row]
       IN /\ used = {id \in Ids : \E e \in Editors : Target[e] = id}
          /\ rows = [id \in Ids |-> IF id \in used THEN saved ELSE None]
          /\ ed = [e \in Editors |->
                [Mounted(e, IF Target[e] = None THEN NewRow ELSE row)
                   EXCEPT !.mounted = e \in setup.editors]]
  /\ changes = 0
  /\ saves = [e \in Editors |-> NoSave]
  /\ dels = [e \in Editors |-> "idle"]
  /\ tester = [e \in Editors |-> NoTester]
  /\ requests = [q \in Requests |-> NoRequest]
  /\ files = [q \in Requests |-> None]

Editing(e) ==
  \/ handleEditClick(e) \/ handleCloseClick(e)
  \/ \E f \in Fields \cup {Blank} : EnterField(e, f)
  \/ \E text \in Texts : handleCodeChange(e, text)
  \/ \E c \in Contents \cup {Bad} : handleFormInstructionsChange(e, c)
  \/ handleSwitchToCode(e) \/ handleSwitchToForm(e) \/ handleEditJsonClick(e)

Saving(e) ==
  \/ handleSubmit(e) \/ wrappedCreateOrUpdateVariation(e)
  \/ updateVariation(e) \/ createVariation(e) \/ createOrUpdateVariationThrows(e)
  \/ SaveSucceeds(e) \/ SaveFails(e) \/ Revalidate(e)

Deleting(e) == PressDelete(e) \/ deleteVariation(e) \/ deleteVariationThrows(e)

Testing ==
  \/ \E e \in Editors, i \in Inputs : handleTransactionChange(e, i)
  \/ \E e \in Editors : FetchFails(e) \/ \E q \in Requests : PressTest(e, q)
  \/ \E q \in Requests :
       TempPath(q) \/ writeFile(q) \/ execValidator(q) \/ TestThrows(q) \/ unlink(q) \/ TestAnswered(q)

Next == (\E e \in Editors : Editing(e) \/ Saving(e) \/ Deleting(e)) \/ Testing

Spec == Init /\ [][Next]_vars

-----------------------------------------------------------------------------
(* Properties *)

(* A row that is written holds what its editor showed when Save was         *)
(* pressed, in the pane that was open, and it was not deleted before:       *)
(* neither edits nor changes of pane while the token is made, nor another   *)
(* editor's text end up in it, and no late save brings a row back.          *)
StoredAsShown ==
  [][\A id \in Ids : rows'[id] \notin {None, rows[id]} =>
       /\ rows[id] # None \/ id \notin used
       /\ rows'[id].content # Bad
       /\ [content |-> rows'[id].content, field |-> rows'[id].field] = rows'[id].shown]_vars

(* A result next to the test button, a verdict or an error, is about the    *)
(* transaction and the variation that the page shows now, although both can *)
(* be edited while the validator runs, older answers may still arrive and   *)
(* the files of other tests come and go.  The only exception is a test that *)
(* shared its file with another one: the two were received in the same      *)
(* millisecond, and each may show the verdict of the other's variation.     *)
ResultIsOfShown ==
  \A e \in Editors :
    showResult(e) /\ tester[e].result # None =>
      /\ tester[e].result.input = tester[e].input
      /\ tester[e].result.variation = variationForTest(e) \/ tester[e].result.mixed
=============================================================================
