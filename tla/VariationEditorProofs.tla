------------------------ MODULE VariationEditorProofs ------------------------
(***************************************************************************)
(* Theorems about VariationEditor, for any number of editors, rows, texts  *)
(* and tests.                                                              *)
(*                                                                         *)
(* What the editors show by now plays no part in the invariants: a save    *)
(* carries the values it closed over, a test those it was sent with, and   *)
(* the two are compared with the page only when a result is shown.         *)
(***************************************************************************)
EXTENDS VariationEditor, TLAPS

IsFunction(f, S) == f = [x \in S |-> f[x]]

-----------------------------------------------------------------------------
(* Saving *)

IsSave(s) == s = [st |-> s.st, with |-> s.with, shown |-> s.shown, ok |-> s.ok]

(* A save under way stores what was shown when it began; once posted, that  *)
(* is valid.                                                                *)
SaveOK(s) ==
  /\ IsSave(s)
  /\ s.st \in {"token", "posted"} =>
       s.shown = [content |-> Active(s.with), field |-> s.with.field]
  /\ s.st = "posted" => Active(s.with) # Bad

SavesInv ==
  /\ IsFunction(saves, Editors)
  /\ IsFunction(rows, Ids)
  /\ \A e \in Editors : SaveOK(saves[e])

-----------------------------------------------------------------------------
(* Testing *)

IsRequest(r) == r = [st |-> r.st, input |-> r.input, variation |-> r.variation,
                     path |-> r.path, mixed |-> r.mixed, result |-> r.result]

Uses(r) == r.st \in {"write", "exec"}

(* A test on the server: its result is about what was sent, unless the file *)
(* was shared.                                                              *)
RequestOK(r) ==
  /\ IsRequest(r)
  /\ Uses(r) => r.path \in Requests
  /\ r.result # None =>
       /\ r.result.input = r.input
       /\ r.result.variation = r.variation \/ r.result.mixed

(* The file it is about to read is its own, unless it is shared. *)
FileOK(r, fs) == r.st = "exec" /\ ~ r.mixed => fs[r.path] \in {None, r.variation}

(* Tests that use one file know it. *)
SharedOK(reqs) ==
  \A p, q \in Requests :
    p # q /\ Uses(reqs[p]) /\ Uses(reqs[q]) /\ reqs[p].path = reqs[q].path => reqs[p].mixed

IsTester(t) == t = [input |-> t.input, validatedInput |-> t.validatedInput,
                    validatedVariation |-> t.validatedVariation,
                    request |-> t.request, result |-> t.result]

(* What is marked as validated is what the test under way was sent with,    *)
(* and what the result is about.                                            *)
TesterOK(t, reqs) ==
  /\ IsTester(t)
  /\ t.request # None =>
       /\ t.request \in Requests /\ reqs[t.request].st # "idle"
       /\ t.validatedInput = reqs[t.request].input
       /\ t.validatedVariation \in {None, reqs[t.request].variation}
  /\ t.result # None =>
       /\ t.validatedInput = t.result.input
       /\ t.validatedVariation \in {None, t.result.variation} \/ t.result.mixed

TestsInv ==
  /\ IsFunction(tester, Editors)
  /\ IsFunction(requests, Requests)
  /\ IsFunction(files, Requests)
  /\ \A q \in Requests : RequestOK(requests[q]) /\ FileOK(requests[q], files)
  /\ SharedOK(requests)
  /\ \A e \in Editors : TesterOK(tester[e], requests)

-----------------------------------------------------------------------------
(* A function updated at one point. *)
LEMMA Updated ==
  ASSUME NEW f, NEW S, IsFunction(f, S), NEW a \in S, NEW v
  PROVE  /\ IsFunction([f EXCEPT ![a] = v], S)
         /\ \A x \in S : [f EXCEPT ![a] = v][x] = IF x = a THEN v ELSE f[x]
<1>1. f = [x \in S |-> f[x]]
  BY DEF IsFunction
<1>2. [f EXCEPT ![a] = v] = [x \in S |-> IF x = a THEN v ELSE f[x]]
  BY <1>1
<1> QED
  BY <1>2 DEF IsFunction

Answered(s, ok) == [s EXCEPT !.st = "answer", !.ok = ok]

LEMMA AnsweredSave ==
  ASSUME NEW s, IsSave(s), NEW ok
  PROVE  IsSave(Answered(s, ok)) /\ Answered(s, ok).st = "answer"
<1> DEFINE s1 == [s EXCEPT !.st = "answer"]
<1>1. s = [st |-> s.st, with |-> s.with, shown |-> s.shown, ok |-> s.ok]
  BY DEF IsSave
<1>2. s1 = [st |-> "answer", with |-> s.with, shown |-> s.shown, ok |-> s.ok]
  BY <1>1
<1>3. Answered(s, ok) = [s1 EXCEPT !.ok = ok]
  BY DEF Answered
<1> HIDE DEF s1
<1>4. [s1 EXCEPT !.ok = ok] = [st |-> "answer", with |-> s.with, shown |-> s.shown, ok |-> ok]
  BY <1>2
<1> QED
  BY <1>3, <1>4 DEF IsSave

Posted(s, st) == [s EXCEPT !.st = st]

LEMMA PostedSave ==
  ASSUME NEW s, IsSave(s), NEW st
  PROVE  /\ IsSave(Posted(s, st)) /\ Posted(s, st).st = st
         /\ Posted(s, st).with = s.with /\ Posted(s, st).shown = s.shown
<1>1. s = [st |-> s.st, with |-> s.with, shown |-> s.shown, ok |-> s.ok]
  BY DEF IsSave
<1>2. Posted(s, st) = [st |-> st, with |-> s.with, shown |-> s.shown, ok |-> s.ok]
  BY <1>1 DEF Posted
<1> QED
  BY <1>2 DEF IsSave

LEMMA NoSaveOK == SaveOK(NoSave)
BY DEF NoSave, SaveOK, IsSave

(* A step of one save. *)
LEMMA OneSave ==
  ASSUME SavesInv, NEW e \in Editors, NEW s, saves' = [saves EXCEPT ![e] = s], SaveOK(s)
  PROVE  /\ IsFunction(saves', Editors)
         /\ \A d \in Editors : SaveOK(saves'[d])
<1>1. IsFunction(saves, Editors) /\ \A d \in Editors : SaveOK(saves[d])
  BY DEF SavesInv
<1>2. IsFunction(saves', Editors)
  BY <1>1, Updated
<1>3. \A d \in Editors : saves'[d] = IF d = e THEN s ELSE saves[d]
  BY <1>1, Updated
<1> QED
  BY <1>1, <1>2, <1>3

(* A save that is answered. *)
LEMMA AnswerOK ==
  ASSUME SavesInv, NEW e \in Editors, NEW ok, Answer(e, ok)
  PROVE  IsFunction(saves', Editors) /\ \A d \in Editors : SaveOK(saves'[d])
<1> DEFINE s == Answered(saves[e], ok)
<1>1. IsFunction(saves, Editors) /\ SaveOK(saves[e])
  BY DEF SavesInv
<1>2. saves' = [saves EXCEPT ![e] = s]
  <2>1. saves = [x \in Editors |-> saves[x]]
    BY <1>1 DEF IsFunction
  <2> QED
    BY <2>1 DEF Answer, Answered
<1>3. IsSave(s) /\ s.st = "answer"
  BY <1>1, AnsweredSave DEF SaveOK
<1> HIDE DEF s
<1>4. SaveOK(s)
  BY <1>3 DEF SaveOK
<1> QED
  BY <1>2, <1>4, OneSave

(* Steps of the saves, the rows aside. *)
LEMMA SavingSteps ==
  ASSUME SavesInv, NEW e \in Editors, Saving(e)
  PROVE  IsFunction(saves', Editors) /\ \A d \in Editors : SaveOK(saves'[d])
<1>1. /\ IsFunction(saves, Editors) /\ SaveOK(saves[e])
      /\ saves = [x \in Editors |-> saves[x]]
  BY DEF SavesInv, IsFunction
<1>2. CASE handleSubmit(e)
  <2> DEFINE w == Values(ed[e])
             shown == [content |-> Active(ed[e]), field |-> ed[e].field]
             s == [st |-> "token", with |-> w, ok |-> FALSE, shown |-> shown]
  <2>1. Active(w) = Active(ed[e]) /\ w.field = ed[e].field
    BY DEF Values, Active
  <2>2. saves' = [saves EXCEPT ![e] = s]
    BY <1>2 DEF handleSubmit
  <2> HIDE DEF w
  <2>3. SaveOK(s)
    BY <2>1 DEF SaveOK, IsSave
  <2> QED
    BY <2>2, <2>3, OneSave
<1>3. CASE wrappedCreateOrUpdateVariation(e)
  <2> DEFINE bad == Active(saves[e].with) = Bad
             st == IF bad THEN "answer" ELSE "posted"
             s == Posted(saves[e], st)
  <2>1. saves' = [saves EXCEPT ![e] = s] /\ saves[e].st = "token"
    BY <1>1, <1>3 DEF wrappedCreateOrUpdateVariation, Posted
  <2>2. st \in {"answer", "posted"} /\ (st = "posted" => ~bad)
    OBVIOUS
  <2>3. IsSave(s) /\ s.st = st /\ s.with = saves[e].with /\ s.shown = saves[e].shown
    BY <1>1, PostedSave DEF SaveOK
  <2> HIDE DEF s, st
  <2>4. SaveOK(s)
    BY <1>1, <2>1, <2>2, <2>3 DEF SaveOK
  <2> QED
    BY <2>1, <2>4, OneSave
<1>4. CASE updateVariation(e)
  BY <1>4, AnswerOK DEF updateVariation
<1>5. CASE createVariation(e)
  BY <1>5, AnswerOK DEF createVariation
<1>6. CASE createOrUpdateVariationThrows(e)
  BY <1>6, AnswerOK DEF createOrUpdateVariationThrows
<1>7. CASE SaveSucceeds(e) \/ SaveFails(e)
  <2>1. saves' = [saves EXCEPT ![e] = NoSave]
    BY <1>7 DEF SaveSucceeds, SaveFails
  <2> QED
    BY <2>1, NoSaveOK, OneSave
<1>8. CASE Revalidate(e)
  BY <1>8 DEF Revalidate, SavesInv
<1> QED
  BY <1>2, <1>3, <1>4, <1>5, <1>6, <1>7, <1>8 DEF Saving, SavesInv

(* The rows that a step writes. *)
RowsWritten ==
  \A id \in Ids : rows'[id] \notin {None, rows[id]} =>
    /\ rows[id] # None \/ id \notin used
    /\ rows'[id].content # Bad
    /\ [content |-> rows'[id].content, field |-> rows'[id].field] = rows'[id].shown

LEMMA WriteRow ==
  ASSUME SavesInv, NEW e \in Editors, NEW id \in Ids, saves[e].st = "posted",
         rows[id] # None \/ id \notin used,
         rows' = [rows EXCEPT ![id] = Stored(e)]
  PROVE  IsFunction(rows', Ids) /\ RowsWritten
<1>1. IsFunction(rows, Ids) /\ SaveOK(saves[e])
  BY DEF SavesInv
<1>2. IsFunction(rows', Ids) /\ \A x \in Ids : rows'[x] = IF x = id THEN Stored(e) ELSE rows[x]
  <2> DEFINE v == Stored(e)
  <2>1. rows' = [rows EXCEPT ![id] = v]
    OBVIOUS
  <2> HIDE DEF v
  <2>2. rows = [x \in Ids |-> rows[x]]
    BY <1>1 DEF IsFunction
  <2>3. rows' = [x \in Ids |-> IF x = id THEN v ELSE rows[x]]
    BY <2>1, <2>2
  <2> QED
    BY <2>3 DEF IsFunction, v
<1>3. /\ Stored(e).content # Bad
      /\ [content |-> Stored(e).content, field |-> Stored(e).field] = Stored(e).shown
  BY <1>1 DEF Stored, SaveOK
<1> QED
  BY <1>2, <1>3 DEF RowsWritten

LEMMA TargetType ==
  ASSUME NEW e \in Editors, Target[e] # None
  PROVE  Target[e] \in Ids
BY EditorAssumption

LEMMA RowsStep ==
  ASSUME SavesInv, [Next]_vars
  PROVE  IsFunction(rows', Ids) /\ RowsWritten
<1>1. CASE UNCHANGED rows
  BY <1>1 DEF RowsWritten, SavesInv
<1>2. ASSUME NEW e \in Editors, updateVariation(e)
      PROVE  IsFunction(rows', Ids) /\ RowsWritten
  <2>1. Target[e] \in Ids
    BY <1>2, TargetType DEF updateVariation
  <2> QED
    BY <1>2, <2>1, WriteRow DEF updateVariation
<1>3. ASSUME NEW e \in Editors, createVariation(e)
      PROVE  IsFunction(rows', Ids) /\ RowsWritten
  <2>1. PICK id \in Ids \ used : rows' = [rows EXCEPT ![id] = Stored(e)]
    BY <1>3 DEF createVariation
  <2>2. saves[e].st = "posted"
    BY <1>3 DEF createVariation
  <2> QED
    BY <2>1, <2>2, WriteRow
<1>4. ASSUME NEW e \in Editors, deleteVariation(e)
      PROVE  IsFunction(rows', Ids) /\ RowsWritten
  <2>1. rows' = [rows EXCEPT ![Target[e]] = None]
    BY <1>4 DEF deleteVariation
  <2>2. rows = [x \in Ids |-> rows[x]]
    BY DEF SavesInv, IsFunction
  <2>3. rows' = [x \in Ids |-> IF x = Target[e] THEN None ELSE rows[x]]
    BY <2>1, <2>2
  <2> QED
    BY <2>3 DEF IsFunction, RowsWritten
<1>5. CASE UNCHANGED vars
  BY <1>1, <1>5 DEF vars, db
<1>6. ASSUME NEW e \in Editors, Editing(e)
      PROVE  UNCHANGED rows
  BY <1>6 DEF Editing, handleEditClick, handleCloseClick, EnterField, handleCodeChange,
     handleFormInstructionsChange, handleSwitchToCode, handleSwitchToForm,
     handleEditJsonClick, Type, Edit, db
<1>7. CASE Testing
  BY <1>1, <1>7 DEF Testing, handleTransactionChange, PressTest, TempPath, writeFile,
     execValidator, TestThrows, unlink, TestAnswered, FetchFails, db
<1>8. ASSUME NEW e \in Editors, Saving(e)
      PROVE  IsFunction(rows', Ids) /\ RowsWritten
  BY <1>1, <1>2, <1>3, <1>8 DEF Saving, handleSubmit, wrappedCreateOrUpdateVariation,
     createOrUpdateVariationThrows, SaveSucceeds, SaveFails, Revalidate, db
<1>9. ASSUME NEW e \in Editors, Deleting(e)
      PROVE  IsFunction(rows', Ids) /\ RowsWritten
  BY <1>1, <1>4, <1>9 DEF Deleting, PressDelete, deleteVariationThrows, db
<1> QED
  BY <1>1, <1>5, <1>6, <1>7, <1>8, <1>9 DEF Next

LEMMA SavesStep ==
  ASSUME SavesInv, [Next]_vars
  PROVE  SavesInv'
<1>1. IsFunction(rows', Ids)
  BY RowsStep
<1>2. CASE UNCHANGED saves
  BY <1>1, <1>2 DEF SavesInv
<1>3. ASSUME NEW e \in Editors, Saving(e)
      PROVE  SavesInv'
  BY <1>1, <1>3, SavingSteps DEF SavesInv
<1>4. CASE UNCHANGED vars
  BY <1>2, <1>4 DEF vars
<1>5. ASSUME NEW e \in Editors, Editing(e)
      PROVE  UNCHANGED saves
  BY <1>5 DEF Editing, handleEditClick, handleCloseClick, EnterField, handleCodeChange,
     handleFormInstructionsChange, handleSwitchToCode, handleSwitchToForm,
     handleEditJsonClick, Type, Edit
<1>6. ASSUME NEW e \in Editors, Deleting(e)
      PROVE  UNCHANGED saves
  BY <1>6 DEF Deleting, PressDelete, deleteVariation, deleteVariationThrows
<1>7. CASE Testing
  BY <1>2, <1>7 DEF Testing, handleTransactionChange, PressTest, TempPath, writeFile,
     execValidator, TestThrows, unlink, TestAnswered, FetchFails
<1> QED
  BY <1>2, <1>3, <1>4, <1>5, <1>6, <1>7 DEF Next

LEMMA SavesInit ==
  ASSUME Init
  PROVE  SavesInv
<1>1. saves = [e \in Editors |-> NoSave]
  BY DEF Init
<1>2. IsFunction(rows, Ids)
  BY DEF Init, IsFunction
<1> QED
  BY <1>1, <1>2, NoSaveOK DEF SavesInv, IsFunction

(* A save stores the variation that its editor showed when Save was         *)
(* pressed, valid, and only in a row that is there or that is new, for any  *)
(* number of editors and whatever is typed while the log-in token is made.  *)
THEOREM StoredIsShown == Spec => StoredAsShown
<1>1. Init => SavesInv
  BY SavesInit
<1>2. SavesInv /\ [Next]_vars => SavesInv'
  BY SavesStep
<1>3. SavesInv /\ [Next]_vars =>
        [\A id \in Ids : rows'[id] \notin {None, rows[id]} =>
           /\ rows[id] # None \/ id \notin used
           /\ rows'[id].content # Bad
           /\ [content |-> rows'[id].content, field |-> rows'[id].field]
                = rows'[id].shown]_vars
  BY RowsStep DEF RowsWritten
<1> QED
  BY <1>1, <1>2, <1>3, PTL DEF Spec, StoredAsShown

-----------------------------------------------------------------------------
(* A request with some of its fields changed. *)
Moved(r, st) == [r EXCEPT !.st = st]
Named(r, path, mixed) == [r EXCEPT !.st = "write", !.path = path, !.mixed = mixed]
Mixed(r, mixed) == [r EXCEPT !.mixed = mixed]
Shares(r) == [r EXCEPT !.mixed = TRUE]
Ran(r, st, result) == [r EXCEPT !.st = st, !.result = result]

LEMMA MovedRequest ==
  ASSUME NEW r, IsRequest(r), NEW st
  PROVE  Moved(r, st) = [st |-> st, input |-> r.input, variation |-> r.variation,
                         path |-> r.path, mixed |-> r.mixed, result |-> r.result]
<1>1. r = [st |-> r.st, input |-> r.input, variation |-> r.variation,
           path |-> r.path, mixed |-> r.mixed, result |-> r.result]
  BY DEF IsRequest
<1> QED
  BY <1>1 DEF Moved

LEMMA MixedRequest ==
  ASSUME NEW r, IsRequest(r), NEW mixed
  PROVE  Mixed(r, mixed) = [st |-> r.st, input |-> r.input, variation |-> r.variation,
                            path |-> r.path, mixed |-> mixed, result |-> r.result]
<1>1. r = [st |-> r.st, input |-> r.input, variation |-> r.variation,
           path |-> r.path, mixed |-> r.mixed, result |-> r.result]
  BY DEF IsRequest
<1> QED
  BY <1>1 DEF Mixed

LEMMA SharesRequest ==
  ASSUME NEW r, IsRequest(r)
  PROVE  Shares(r) = [st |-> r.st, input |-> r.input, variation |-> r.variation,
                      path |-> r.path, mixed |-> TRUE, result |-> r.result]
<1>1. Shares(r) = Mixed(r, TRUE)
  BY Zenon DEF Shares, Mixed
<1> QED
  BY <1>1, MixedRequest, Zenon

LEMMA NamedRequest ==
  ASSUME NEW r, IsRequest(r), NEW path, NEW mixed
  PROVE  Named(r, path, mixed) = [st |-> "write", input |-> r.input,
                                  variation |-> r.variation, path |-> path,
                                  mixed |-> mixed, result |-> r.result]
<1> DEFINE m == Moved(r, "write")
           n == [m EXCEPT !.path = path]
<1>1. Named(r, path, mixed) = [n EXCEPT !.mixed = mixed]
  BY DEF Named, Moved
<1>2. m = [st |-> "write", input |-> r.input, variation |-> r.variation,
           path |-> r.path, mixed |-> r.mixed, result |-> r.result]
  BY MovedRequest
<1> HIDE DEF m
<1>3. n = [st |-> "write", input |-> r.input, variation |-> r.variation,
           path |-> path, mixed |-> r.mixed, result |-> r.result]
  BY <1>2
<1> HIDE DEF n
<1>4. [n EXCEPT !.mixed = mixed] = [st |-> "write", input |-> r.input,
         variation |-> r.variation, path |-> path, mixed |-> mixed, result |-> r.result]
  BY <1>3
<1> QED
  BY <1>1, <1>4

LEMMA RanRequest ==
  ASSUME NEW r, IsRequest(r), NEW st, NEW result
  PROVE  Ran(r, st, result) = [st |-> st, input |-> r.input, variation |-> r.variation,
                               path |-> r.path, mixed |-> r.mixed, result |-> result]
<1> DEFINE m == Moved(r, st)
<1>1. Ran(r, st, result) = [m EXCEPT !.result = result]
  BY DEF Ran, Moved
<1>2. m = [st |-> st, input |-> r.input, variation |-> r.variation,
           path |-> r.path, mixed |-> r.mixed, result |-> r.result]
  BY MovedRequest
<1> HIDE DEF m
<1>3. [m EXCEPT !.result = result] = [st |-> st, input |-> r.input, variation |-> r.variation,
         path |-> r.path, mixed |-> r.mixed, result |-> result]
  BY <1>2
<1> QED
  BY <1>1, <1>3

(* What a result is about. *)
LEMMA ResultIs ==
  ASSUME NEW r, NEW v, NEW mixed
  PROVE  /\ Result(r, v, mixed).input = r.input
         /\ Result(r, v, mixed).variation = v
         /\ Result(r, v, mixed).mixed = mixed
BY DEF Result

(* A step of one test on the server: it stays about what it was sent with,  *)
(* and it writes no file but the one it uses.                               *)
LEMMA OneRequest ==
  ASSUME TestsInv, NEW q \in Requests, NEW r, requests' = [requests EXCEPT ![q] = r],
         RequestOK(r), FileOK(r, files'),
         Uses(r) => /\ Uses(requests[q]) /\ r.path = requests[q].path
                    /\ r.mixed = requests[q].mixed,
         IsFunction(files', Requests),
         \A p \in Requests : \/ files'[p] \in {None, files[p]}
                             \/ requests[q].st = "write" /\ p = requests[q].path,
         requests[q].st # "idle", r.st # "idle", r.input = requests[q].input,
         r.variation = requests[q].variation,
         UNCHANGED tester
  PROVE  TestsInv'
<1>1. IsFunction(requests, Requests) /\ SharedOK(requests)
      /\ \A p \in Requests : RequestOK(requests[p]) /\ FileOK(requests[p], files)
  BY DEF TestsInv
<1>2. IsFunction(requests', Requests)
  BY <1>1, Updated
<1>3. \A p \in Requests : requests'[p] = IF p = q THEN r ELSE requests[p]
  BY <1>1, Updated
<1>4. \A p \in Requests : RequestOK(requests'[p])
  BY <1>1, <1>3
<1>5. ASSUME NEW p \in Requests
      PROVE  FileOK(requests'[p], files')
  <2>1. CASE p = q
    BY <1>3, <2>1
  <2>2. CASE p # q
    <3>1. SUFFICES ASSUME requests[p].st = "exec", ~ requests[p].mixed
                   PROVE  files'[requests[p].path] \in {None, requests[p].variation}
      BY <1>3, <2>2 DEF FileOK
    <3>2. Uses(requests[p])
      BY <3>1 DEF Uses
    <3>3. requests[p].path \in Requests /\ files[requests[p].path] \in {None, requests[p].variation}
      BY <1>1, <3>1, <3>2 DEF RequestOK, FileOK
    <3>4. ~ (requests[q].st = "write" /\ requests[p].path = requests[q].path)
      BY <1>1, <2>2, <3>1, <3>2 DEF SharedOK, Uses
    <3> QED
      BY <3>3, <3>4
  <2> QED
    BY <2>1, <2>2
<1>6. SharedOK(requests')
  BY <1>1, <1>3 DEF SharedOK
<1>7. ASSUME NEW e \in Editors
      PROVE  TesterOK(tester'[e], requests')
  <2>1. TesterOK(tester[e], requests)
    BY DEF TestsInv
  <2> QED
    BY <1>3, <2>1 DEF TesterOK
<1>8. IsFunction(tester', Editors)
  BY DEF TestsInv
<1> QED
  BY <1>2, <1>4, <1>5, <1>6, <1>7, <1>8 DEF TestsInv

(* Naming the file: whoever uses it already is told, and told of. *)
LEMMA TempPathStep ==
  ASSUME TestsInv, NEW q \in Requests, TempPath(q)
  PROVE  TestsInv'
<1>1. IsFunction(requests, Requests) /\ SharedOK(requests)
      /\ \A p \in Requests : RequestOK(requests[p]) /\ FileOK(requests[p], files)
  BY DEF TestsInv
<1>2. UNCHANGED <<tester, files>> /\ requests[q].st = "sent"
  BY DEF TempPath
<1>3. PICK path \in Requests :
        requests' = [r \in Requests |->
          IF r = q THEN [requests[r] EXCEPT !.st = "write", !.path = path,
                                            !.mixed = Using(path) # {}]
          ELSE IF r \in Using(path) THEN [requests[r] EXCEPT !.mixed = TRUE]
          ELSE requests[r]]
  BY DEF TempPath
<1> DEFINE mixed == Using(path) # {}
           new == Named(requests[q], path, mixed)
<1>4. IsFunction(requests', Requests)
  BY <1>3 DEF IsFunction
<1>5. requests'[q] = new
  BY <1>3 DEF Named
<1>6. new = [st |-> "write", input |-> requests[q].input,
             variation |-> requests[q].variation, path |-> path,
             mixed |-> mixed, result |-> requests[q].result]
  <2> HIDE DEF mixed
  <2> QED
    BY <1>1, NamedRequest DEF RequestOK
<1> HIDE DEF new, mixed
<1>7. /\ IsRequest(new) /\ new.st = "write" /\ new.path = path /\ new.mixed = mixed
      /\ new.input = requests[q].input /\ new.variation = requests[q].variation
      /\ new.result = requests[q].result
  BY <1>6 DEF IsRequest
<1>8. ASSUME NEW p \in Requests, p # q
      PROVE  /\ RequestOK(requests'[p]) /\ requests'[p].st = requests[p].st
             /\ requests'[p].path = requests[p].path
             /\ requests'[p].input = requests[p].input
             /\ requests'[p].variation = requests[p].variation
             /\ requests'[p].mixed = IF p \in Using(path) THEN TRUE ELSE requests[p].mixed
  <2>1. CASE p \in Using(path)
    <3> DEFINE r == Shares(requests[p])
    <3>1. requests'[p] = r
      BY <1>3, <1>8, <2>1 DEF Shares
    <3>2. r = [st |-> requests[p].st, input |-> requests[p].input,
               variation |-> requests[p].variation, path |-> requests[p].path,
               mixed |-> TRUE, result |-> requests[p].result]
      BY <1>1, SharesRequest DEF RequestOK
    <3> HIDE DEF r
    <3>3. /\ IsRequest(r) /\ r.st = requests[p].st /\ r.path = requests[p].path
          /\ r.input = requests[p].input /\ r.variation = requests[p].variation
          /\ r.mixed = TRUE /\ r.result = requests[p].result
      BY <3>2 DEF IsRequest
    <3>4. RequestOK(r)
      BY <1>1, <3>3 DEF RequestOK, Uses
    <3> QED
      BY <2>1, <3>1, <3>3, <3>4
  <2>2. CASE p \notin Using(path)
    <3>1. requests'[p] = requests[p]
      BY <1>3, <1>8, <2>2
    <3> QED
      BY <1>1, <2>2, <3>1
  <2> QED
    BY <2>1, <2>2
<1>9. RequestOK(requests'[q]) /\ FileOK(requests'[q], files')
  BY <1>1, <1>5, <1>7 DEF RequestOK, FileOK, Uses
<1>10. \A p \in Requests : RequestOK(requests'[p]) /\ FileOK(requests'[p], files')
  <2> SUFFICES ASSUME NEW p \in Requests
               PROVE  RequestOK(requests'[p]) /\ FileOK(requests'[p], files')
    OBVIOUS
  <2>1. CASE p = q
    BY <1>9, <2>1
  <2>2. CASE p # q
    BY <1>1, <1>2, <1>8, <2>2 DEF FileOK
  <2> QED
    BY <2>1, <2>2
<1>11. SharedOK(requests')
  <2> SUFFICES ASSUME NEW x \in Requests, NEW y \in Requests, x # y,
                      Uses(requests'[x]), Uses(requests'[y]),
                      requests'[x].path = requests'[y].path
               PROVE  requests'[x].mixed
    BY DEF SharedOK
  <2>1. CASE x = q
    <3>1. y \in Using(path)
      BY <1>5, <1>7, <1>8, <2>1 DEF Using, Uses
    <3> QED
      BY <1>5, <1>7, <2>1, <3>1 DEF mixed
  <2>2. CASE y = q
    <3>1. x \in Using(path)
      BY <1>5, <1>7, <1>8, <2>2 DEF Using, Uses
    <3> QED
      BY <1>8, <2>2, <3>1
  <2>3. CASE x # q /\ y # q
    <3>1. requests[x].mixed
      BY <1>1, <1>8, <2>3 DEF SharedOK, Uses
    <3> QED
      BY <1>8, <2>3, <3>1
  <2> QED
    BY <2>1, <2>2, <2>3
<1>12. ASSUME NEW e \in Editors
       PROVE  TesterOK(tester'[e], requests')
  <2>1. TesterOK(tester[e], requests)
    BY DEF TestsInv
  <2>2. \A p \in Requests : /\ requests[p].st # "idle" => requests'[p].st # "idle"
                            /\ requests'[p].input = requests[p].input
                            /\ requests'[p].variation = requests[p].variation
    BY <1>5, <1>7, <1>8
  <2> QED
    BY <1>2, <2>1, <2>2 DEF TesterOK
<1> QED
  BY <1>2, <1>4, <1>10, <1>11, <1>12 DEF TestsInv

LEMMA WriteFileStep ==
  ASSUME TestsInv, NEW q \in Requests, writeFile(q)
  PROVE  TestsInv'
<1> DEFINE o == requests[q]
           r == Moved(o, "exec")
<1>1. /\ RequestOK(o) /\ IsRequest(o)
      /\ requests = [p \in Requests |-> requests[p]] /\ IsFunction(files, Requests)
  BY DEF TestsInv, RequestOK, IsFunction
<1>2. o.st = "write" /\ Uses(o) /\ o.path \in Requests /\ UNCHANGED tester
  BY <1>1 DEF writeFile, RequestOK, Uses
<1>3. requests' = [requests EXCEPT ![q] = r]
  BY <1>1 DEF writeFile, Moved
<1>4. r = [st |-> "exec", input |-> o.input, variation |-> o.variation,
           path |-> o.path, mixed |-> o.mixed, result |-> o.result]
  BY <1>1, MovedRequest
<1> HIDE DEF r
<1>5. /\ IsRequest(r) /\ r.st = "exec" /\ r.path = o.path /\ r.input = o.input
      /\ r.variation = o.variation /\ r.mixed = o.mixed /\ r.result = o.result
  BY <1>4 DEF IsRequest
<1>6. PICK v \in {o.variation} \cup (IF o.mixed THEN {Bad} ELSE {}) :
        files' = [files EXCEPT ![o.path] = v]
  BY DEF writeFile
<1> HIDE DEF o
<1>7. /\ IsFunction(files', Requests)
      /\ \A p \in Requests : files'[p] = IF p = o.path THEN v ELSE files[p]
  <2>1. files = [p \in Requests |-> files[p]]
    BY <1>1 DEF IsFunction
  <2>2. files' = [p \in Requests |-> IF p = o.path THEN v ELSE files[p]]
    BY <1>6, <2>1
  <2> QED
    BY <2>2 DEF IsFunction
<1>8. FileOK(r, files')
  BY <1>2, <1>5, <1>6, <1>7 DEF FileOK
<1>9. RequestOK(r)
  BY <1>1, <1>2, <1>5 DEF RequestOK
<1>10. \A p \in Requests : files'[p] \in {None, files[p]} \/ p = o.path
  BY <1>7
<1> QED
  BY <1>2, <1>3, <1>5, <1>7, <1>8, <1>9, <1>10, OneRequest DEF o

LEMMA ExecValidatorStep ==
  ASSUME TestsInv, NEW q \in Requests, execValidator(q)
  PROVE  TestsInv'
<1> DEFINE o == requests[q]
           read == IF files[o.path] = None THEN o.variation ELSE files[o.path]
           res == Result(o, read, o.mixed)
           r == Ran(o, "unlink", res)
<1>1. /\ RequestOK(o) /\ IsRequest(o) /\ FileOK(o, files)
      /\ requests = [p \in Requests |-> requests[p]] /\ IsFunction(files, Requests)
  BY DEF TestsInv, RequestOK, IsFunction
<1>2. o.st = "exec" /\ UNCHANGED <<tester, files>>
  BY DEF execValidator
<1>3. requests' = [requests EXCEPT ![q] = r]
  BY <1>1 DEF execValidator, Ran
<1>4. read = o.variation \/ o.mixed
  BY <1>1, <1>2 DEF FileOK
<1> HIDE DEF read
<1>5. res.input = o.input /\ res.variation = read /\ res.mixed = o.mixed
  BY DEF Result
<1> HIDE DEF res
<1>6. r = [st |-> "unlink", input |-> o.input, variation |-> o.variation,
           path |-> o.path, mixed |-> o.mixed, result |-> res]
  BY <1>1, RanRequest
<1> HIDE DEF r
<1>7. /\ IsRequest(r) /\ r.st = "unlink" /\ r.input = o.input
      /\ r.variation = o.variation /\ r.result = res
  BY <1>6 DEF IsRequest
<1>8. RequestOK(r) /\ FileOK(r, files') /\ ~ Uses(r)
  BY <1>4, <1>5, <1>7 DEF RequestOK, FileOK, Uses
<1>9. o.st # "idle" /\ r.st # "idle"
  BY <1>2, <1>7
<1> QED
  BY <1>1, <1>2, <1>3, <1>7, <1>8, <1>9, OneRequest

LEMMA TestThrowsStep ==
  ASSUME TestsInv, NEW q \in Requests, TestThrows(q)
  PROVE  TestsInv'
<1> DEFINE o == requests[q]
           res == Result(o, o.variation, FALSE)
           r == Ran(o, "answer", res)
<1>1. /\ RequestOK(o) /\ IsRequest(o)
      /\ requests = [p \in Requests |-> requests[p]] /\ IsFunction(files, Requests)
  BY DEF TestsInv, RequestOK, IsFunction
<1>2. o.st # "idle" /\ UNCHANGED <<tester, files>>
  BY DEF TestThrows
<1>3. requests' = [requests EXCEPT ![q] = r]
  BY <1>1 DEF TestThrows, Ran
<1>4. res.input = o.input /\ res.variation = o.variation
  BY DEF Result
<1> HIDE DEF res
<1>5. r = [st |-> "answer", input |-> o.input, variation |-> o.variation,
           path |-> o.path, mixed |-> o.mixed, result |-> res]
  BY <1>1, RanRequest
<1> HIDE DEF r
<1>6. /\ IsRequest(r) /\ r.st = "answer" /\ r.input = o.input
      /\ r.variation = o.variation /\ r.result = res
  BY <1>5 DEF IsRequest
<1>7. RequestOK(r) /\ FileOK(r, files') /\ ~ Uses(r) /\ r.st # "idle"
  BY <1>4, <1>6 DEF RequestOK, FileOK, Uses
<1> QED
  BY <1>1, <1>2, <1>3, <1>6, <1>7, OneRequest

LEMMA UnlinkStep ==
  ASSUME TestsInv, NEW q \in Requests, unlink(q)
  PROVE  TestsInv'
<1> DEFINE o == requests[q]
           own == Result(o, o.variation, FALSE)
           res == IF files[o.path] = None THEN own ELSE o.result
           r == Ran(o, "answer", res)
<1>1. /\ RequestOK(o) /\ IsRequest(o)
      /\ requests = [p \in Requests |-> requests[p]] /\ IsFunction(files, Requests)
  BY DEF TestsInv, RequestOK, IsFunction
<1>2. o.st # "idle" /\ UNCHANGED tester
  BY DEF unlink
<1>3. requests' = [requests EXCEPT ![q] = r]
  BY <1>1 DEF unlink, Ran
<1>4. own.input = o.input /\ own.variation = o.variation
  BY DEF Result
<1> HIDE DEF own
<1>5. res # None => res.input = o.input /\ (res.variation = o.variation \/ res.mixed)
  BY <1>1, <1>4 DEF RequestOK
<1> HIDE DEF res
<1>6. r = [st |-> "answer", input |-> o.input, variation |-> o.variation,
           path |-> o.path, mixed |-> o.mixed, result |-> res]
  BY <1>1, RanRequest
<1> HIDE DEF r
<1>7. /\ IsRequest(r) /\ r.st = "answer" /\ r.input = o.input
      /\ r.variation = o.variation /\ r.result = res
  BY <1>6 DEF IsRequest
<1>8. RequestOK(r) /\ FileOK(r, files') /\ ~ Uses(r) /\ r.st # "idle"
  BY <1>5, <1>7 DEF RequestOK, FileOK, Uses
<1>9. /\ IsFunction(files', Requests)
      /\ \A p \in Requests : files'[p] \in {None, files[p]}
  <2>1. files = [p \in Requests |-> files[p]]
    BY <1>1 DEF IsFunction
  <2>2. files' = [files EXCEPT ![o.path] = None]
    BY DEF unlink
  <2>3. files' = [p \in Requests |-> IF p = o.path THEN None ELSE files[p]]
    BY <2>1, <2>2
  <2> QED
    BY <2>3 DEF IsFunction
<1> QED
  BY <1>2, <1>3, <1>7, <1>8, <1>9, OneRequest

-----------------------------------------------------------------------------
(* A step of one tester. *)
LEMMA OneTester ==
  ASSUME TestsInv, NEW e \in Editors, NEW t, tester' = [tester EXCEPT ![e] = t],
         TesterOK(t, requests), UNCHANGED <<requests, files>>
  PROVE  TestsInv'
<1>1. tester = [d \in Editors |-> tester[d]]
  BY DEF TestsInv, IsFunction
<1>2. tester' = [d \in Editors |-> IF d = e THEN t ELSE tester[d]]
  BY <1>1
<1>3. \A d \in Editors : TesterOK(tester[d], requests)
  BY DEF TestsInv
<1>4. \A d \in Editors : TesterOK(tester'[d], requests')
  BY <1>2, <1>3
<1> QED
  BY <1>2, <1>4 DEF TestsInv, IsFunction

LEMMA TestsFrame ==
  ASSUME TestsInv, UNCHANGED testing
  PROVE  TestsInv'
BY DEF TestsInv, testing

LEMMA NoTesterOK ==
  ASSUME NEW reqs
  PROVE  TesterOK(NoTester, reqs)
BY DEF NoTester, TesterOK, IsTester

(* Edits leave the tester, clear it, or forget the validated variation. *)
LEMMA TesterAfterOK ==
  ASSUME TestsInv, NEW e \in Editors, NEW s
  PROVE  TesterOK(TesterAfter(e, s), requests)
<1>1. TesterOK(tester[e], requests)
  BY DEF TestsInv
<1> DEFINE t == [tester[e] EXCEPT !.validatedVariation = None]
<1>2. tester[e] = [input |-> tester[e].input, validatedInput |-> tester[e].validatedInput,
                   validatedVariation |-> tester[e].validatedVariation,
                   request |-> tester[e].request, result |-> tester[e].result]
  BY <1>1 DEF TesterOK, IsTester
<1>3. t = [input |-> tester[e].input, validatedInput |-> tester[e].validatedInput,
           validatedVariation |-> None,
           request |-> tester[e].request, result |-> tester[e].result]
  BY <1>2
<1> HIDE DEF t
<1>4. /\ IsTester(t) /\ t.validatedInput = tester[e].validatedInput
      /\ t.validatedVariation = None /\ t.request = tester[e].request
      /\ t.result = tester[e].result
  BY <1>3 DEF IsTester
<1>5. TesterOK(t, requests)
  BY <1>1, <1>4 DEF TesterOK
<1>6. TesterAfter(e, s) \in {NoTester, t, tester[e]}
  BY DEF TesterAfter, t
<1> QED
  BY <1>1, <1>5, <1>6, NoTesterOK

LEMMA EditTests ==
  ASSUME TestsInv, NEW e \in Editors, NEW s, Edit(e, s)
  PROVE  TestsInv'
BY TesterAfterOK, OneTester DEF Edit

LEMMA EditingTests ==
  ASSUME TestsInv, NEW e \in Editors, Editing(e)
  PROVE  TestsInv'
<1>1. CASE handleEditClick(e)
  BY <1>1, TestsFrame DEF handleEditClick
<1>2. CASE handleCloseClick(e)
  BY <1>2, NoTesterOK, OneTester DEF handleCloseClick
<1>3. CASE \E f \in Fields \cup {Blank} : EnterField(e, f)
  BY <1>3, EditTests DEF EnterField, Type
<1>4. CASE \E text \in Texts : handleCodeChange(e, text)
  BY <1>4, EditTests DEF handleCodeChange, Type
<1>5. CASE \E c \in Contents \cup {Bad} : handleFormInstructionsChange(e, c)
  BY <1>5, EditTests DEF handleFormInstructionsChange, Type
<1>6. CASE handleSwitchToCode(e)
  BY <1>6, EditTests DEF handleSwitchToCode
<1>7. CASE handleSwitchToForm(e)
  BY <1>7, EditTests DEF handleSwitchToForm
<1>8. CASE handleEditJsonClick(e)
  BY <1>8, EditTests DEF handleEditJsonClick
<1> QED
  BY <1>1, <1>2, <1>3, <1>4, <1>5, <1>6, <1>7, <1>8 DEF Editing

LEMMA SavingTests ==
  ASSUME TestsInv, NEW e \in Editors, Saving(e) \/ Deleting(e)
  PROVE  TestsInv'
<1>1. CASE SaveSucceeds(e)
  <2>1. UNCHANGED <<requests, files>>
    BY <1>1 DEF SaveSucceeds
  <2>2. CASE tester' = [tester EXCEPT ![e] = NoTester]
    BY <2>1, <2>2, NoTesterOK, OneTester
  <2>3. CASE UNCHANGED tester
    BY <2>1, <2>3, TestsFrame DEF testing
  <2> QED
    BY <1>1, <2>2, <2>3 DEF SaveSucceeds
<1>2. CASE Revalidate(e)
  BY <1>2, TesterAfterOK, OneTester DEF Revalidate
<1>3. CASE UNCHANGED testing
  BY <1>3, TestsFrame
<1> QED
  BY <1>1, <1>2, <1>3
  DEF Saving, Deleting, handleSubmit, wrappedCreateOrUpdateVariation, updateVariation,
      createVariation, createOrUpdateVariationThrows, SaveFails, PressDelete,
      deleteVariation, deleteVariationThrows

LEMMA HandleTransactionChangeStep ==
  ASSUME TestsInv, NEW e \in Editors, NEW i, handleTransactionChange(e, i)
  PROVE  TestsInv'
<1> DEFINE o == tester[e]
           t == [o EXCEPT !.input = i]
<1>1. TesterOK(o, requests) /\ tester = [d \in Editors |-> tester[d]]
  BY DEF TestsInv, IsFunction
<1>2. tester' = [tester EXCEPT ![e] = t] /\ UNCHANGED <<requests, files>>
  BY <1>1 DEF handleTransactionChange
<1>3. o = [input |-> o.input, validatedInput |-> o.validatedInput,
           validatedVariation |-> o.validatedVariation,
           request |-> o.request, result |-> o.result]
  BY <1>1 DEF TesterOK, IsTester
<1>4. t = [input |-> i, validatedInput |-> o.validatedInput,
           validatedVariation |-> o.validatedVariation,
           request |-> o.request, result |-> o.result]
  BY <1>3
<1> HIDE DEF t
<1>5. /\ IsTester(t) /\ t.validatedInput = o.validatedInput
      /\ t.validatedVariation = o.validatedVariation
      /\ t.request = o.request /\ t.result = o.result
  BY <1>4 DEF IsTester
<1>6. TesterOK(t, requests)
  BY <1>1, <1>5 DEF TesterOK
<1> QED
  BY <1>2, <1>6, OneTester

LEMMA NoRequestOK ==
  ASSUME NEW fs
  PROVE  RequestOK(NoRequest) /\ FileOK(NoRequest, fs) /\ ~ Uses(NoRequest)
BY DEF NoRequest, RequestOK, FileOK, Uses, IsRequest

LEMMA PressTestStep ==
  ASSUME TestsInv, NEW e \in Editors, NEW q \in Requests, PressTest(e, q)
  PROVE  TestsInv'
<1> DEFINE o == tester[e]
           v == variationForTest(e)
           o1 == [o EXCEPT !.validatedInput = o.input]
           o2 == [o1 EXCEPT !.validatedVariation = v]
           o3 == [o2 EXCEPT !.request = q]
           t == [o3 EXCEPT !.result = None]
           no == NoRequest
           n1 == [no EXCEPT !.st = "sent"]
           n2 == [n1 EXCEPT !.input = o.input]
           r == [n2 EXCEPT !.variation = v]
<1>1. /\ TesterOK(o, requests) /\ tester = [d \in Editors |-> tester[d]]
      /\ requests = [p \in Requests |-> requests[p]]
  BY DEF TestsInv, IsFunction
<1>2. tester' = [tester EXCEPT ![e] = t]
  BY <1>1 DEF PressTest
<1>3. requests' = [requests EXCEPT ![q] = r] /\ UNCHANGED files /\ requests[q].st = "idle"
  BY DEF PressTest
<1>4. o = [input |-> o.input, validatedInput |-> o.validatedInput,
           validatedVariation |-> o.validatedVariation,
           request |-> o.request, result |-> o.result]
  BY <1>1 DEF TesterOK, IsTester
<1> HIDE DEF v
<1>5. o1 = [input |-> o.input, validatedInput |-> o.input,
            validatedVariation |-> o.validatedVariation,
            request |-> o.request, result |-> o.result]
  BY <1>4
<1> HIDE DEF o1
<1>6. o2 = [input |-> o.input, validatedInput |-> o.input, validatedVariation |-> v,
            request |-> o.request, result |-> o.result]
  BY <1>5
<1> HIDE DEF o2
<1>7. o3 = [input |-> o.input, validatedInput |-> o.input, validatedVariation |-> v,
            request |-> q, result |-> o.result]
  BY <1>6
<1> HIDE DEF o3
<1>8. t = [input |-> o.input, validatedInput |-> o.input, validatedVariation |-> v,
           request |-> q, result |-> None]
  BY <1>7
<1> HIDE DEF t
<1>a. IsRequest(no) /\ no.result = None
  BY NoRequestOK DEF RequestOK, NoRequest
<1> HIDE DEF no
<1>9. n1 = [st |-> "sent", input |-> no.input, variation |-> no.variation,
            path |-> no.path, mixed |-> no.mixed, result |-> no.result]
  BY <1>a, MovedRequest DEF Moved
<1> HIDE DEF n1
<1>10. n2 = [st |-> "sent", input |-> o.input, variation |-> no.variation,
             path |-> no.path, mixed |-> no.mixed, result |-> no.result]
  BY <1>9
<1> HIDE DEF n2
<1>11. r = [st |-> "sent", input |-> o.input, variation |-> v,
            path |-> no.path, mixed |-> no.mixed, result |-> no.result]
  BY <1>10
<1> HIDE DEF r
<1>12. requests' = [p \in Requests |-> IF p = q THEN r ELSE requests[p]]
  BY <1>1, <1>3
<1>13. tester' = [d \in Editors |-> IF d = e THEN t ELSE tester[d]]
  BY <1>1, <1>2
<1>14. RequestOK(r) /\ FileOK(r, files) /\ ~ Uses(r)
  BY <1>a, <1>11 DEF RequestOK, FileOK, Uses, IsRequest
<1>15. /\ \A p \in Requests : RequestOK(requests'[p]) /\ FileOK(requests'[p], files')
       /\ SharedOK(requests')
  <2>1. \A p \in Requests : RequestOK(requests'[p]) /\ FileOK(requests'[p], files')
    BY <1>3, <1>12, <1>14 DEF TestsInv
  <2>2. SharedOK(requests')
    BY <1>12, <1>14 DEF TestsInv, SharedOK
  <2> QED
    BY <2>1, <2>2
<1>16. TesterOK(t, requests')
  <2>1. IsTester(t) /\ t.validatedInput = o.input /\ t.validatedVariation = v
        /\ t.request = q /\ t.result = None
    BY <1>8 DEF IsTester
  <2>2. requests'[q].st = "sent" /\ requests'[q].input = o.input /\ requests'[q].variation = v
    BY <1>11, <1>12
  <2> QED
    BY <2>1, <2>2 DEF TesterOK
<1>17. ASSUME NEW d \in Editors
       PROVE  TesterOK(tester[d], requests')
  <2>1. TesterOK(tester[d], requests)
    BY DEF TestsInv
  <2>2. tester[d].request # None => tester[d].request # q
    BY <1>3, <2>1 DEF TesterOK
  <2> QED
    BY <1>12, <2>1, <2>2 DEF TesterOK
<1>18. \A d \in Editors : TesterOK(tester'[d], requests')
  BY <1>13, <1>16, <1>17
<1> QED
  BY <1>3, <1>12, <1>13, <1>15, <1>18 DEF TestsInv, IsFunction

LEMMA TestAnsweredStep ==
  ASSUME TestsInv, NEW q \in Requests, TestAnswered(q)
  PROVE  TestsInv'
<1>1. /\ requests = [p \in Requests |-> requests[p]]
      /\ RequestOK(requests[q])
  BY DEF TestsInv, IsFunction
<1>2. requests' = [p \in Requests |-> IF p = q THEN NoRequest ELSE requests[p]]
  BY <1>1 DEF TestAnswered
<1>3. UNCHANGED files
  BY DEF TestAnswered
<1>4. /\ \A p \in Requests : RequestOK(requests'[p]) /\ FileOK(requests'[p], files')
      /\ SharedOK(requests')
  <2>1. \A p \in Requests : RequestOK(requests'[p]) /\ FileOK(requests'[p], files')
    BY <1>2, <1>3, NoRequestOK DEF TestsInv
  <2>2. SharedOK(requests')
    BY <1>2, NoRequestOK DEF TestsInv, SharedOK
  <2> QED
    BY <2>1, <2>2
<1>5. tester' = [e \in Editors |->
        IF tester[e].request = q
        THEN [tester[e] EXCEPT !.request = None, !.result = requests[q].result]
        ELSE tester[e]]
  BY DEF TestAnswered
<1>6. ASSUME NEW e \in Editors
      PROVE  TesterOK(tester'[e], requests')
  <2>1. TesterOK(tester[e], requests)
    BY DEF TestsInv
  <2>2. CASE tester[e].request # q
    <3>1. tester'[e] = tester[e]
      BY <1>5, <2>2
    <3> QED
      BY <1>2, <2>1, <2>2, <3>1 DEF TesterOK
  <2>3. CASE tester[e].request = q
    <3> DEFINE o == tester[e]
               res == requests[q].result
               o1 == [o EXCEPT !.request = None]
               t == [o1 EXCEPT !.result = res]
    <3>1. tester'[e] = t
      BY <1>5, <2>3
    <3>2. o = [input |-> o.input, validatedInput |-> o.validatedInput,
               validatedVariation |-> o.validatedVariation,
               request |-> o.request, result |-> o.result]
      BY <2>1 DEF TesterOK, IsTester
    <3>3. res # None => /\ res.input = requests[q].input
                        /\ res.variation = requests[q].variation \/ res.mixed
      BY <1>1 DEF RequestOK
    <3> HIDE DEF res
    <3>4. o1 = [input |-> o.input, validatedInput |-> o.validatedInput,
                validatedVariation |-> o.validatedVariation,
                request |-> None, result |-> o.result]
      BY <3>2
    <3> HIDE DEF o1
    <3>5. t = [input |-> o.input, validatedInput |-> o.validatedInput,
               validatedVariation |-> o.validatedVariation,
               request |-> None, result |-> res]
      BY <3>4
    <3> HIDE DEF t
    <3>6. /\ IsTester(t) /\ t.validatedInput = o.validatedInput
          /\ t.validatedVariation = o.validatedVariation
          /\ t.request = None /\ t.result = res
      BY <3>5 DEF IsTester
    <3>7. q # None
      BY EditorAssumption
    <3>8. /\ o.validatedInput = requests[q].input
          /\ o.validatedVariation \in {None, requests[q].variation}
      BY <2>1, <2>3, <3>7 DEF TesterOK
    <3>9. TesterOK(t, requests')
      BY <3>3, <3>6, <3>8 DEF TesterOK
    <3> QED
      BY <3>1, <3>9
  <2> QED
    BY <2>2, <2>3
<1> QED
  BY <1>2, <1>3, <1>4, <1>5, <1>6 DEF TestsInv, IsFunction

LEMMA FetchFailsStep ==
  ASSUME TestsInv, NEW e \in Editors, FetchFails(e)
  PROVE  TestsInv'
<1> DEFINE o == tester[e]
           req == requests[o.request]
           res == Result(req, req.variation, FALSE)
           o1 == [o EXCEPT !.request = None]
           t == [o1 EXCEPT !.result = res]
<1>1. TesterOK(o, requests) /\ tester = [d \in Editors |-> tester[d]]
  BY DEF TestsInv, IsFunction
<1>2. o.request # None /\ UNCHANGED <<requests, files>>
  BY DEF FetchFails
<1>3. tester' = [tester EXCEPT ![e] = t]
  BY <1>1 DEF FetchFails
<1>4. res.input = req.input /\ res.variation = req.variation
  BY DEF Result
<1> HIDE DEF res
<1>5. o = [input |-> o.input, validatedInput |-> o.validatedInput,
           validatedVariation |-> o.validatedVariation,
           request |-> o.request, result |-> o.result]
  BY <1>1 DEF TesterOK, IsTester
<1>6. o1 = [input |-> o.input, validatedInput |-> o.validatedInput,
            validatedVariation |-> o.validatedVariation,
            request |-> None, result |-> o.result]
  BY <1>5
<1> HIDE DEF o1
<1>7. t = [input |-> o.input, validatedInput |-> o.validatedInput,
           validatedVariation |-> o.validatedVariation,
           request |-> None, result |-> res]
  BY <1>6
<1> HIDE DEF t
<1>8. /\ IsTester(t) /\ t.validatedInput = o.validatedInput
      /\ t.validatedVariation = o.validatedVariation
      /\ t.request = None /\ t.result = res
  BY <1>7 DEF IsTester
<1>9. TesterOK(t, requests)
  BY <1>1, <1>2, <1>4, <1>8 DEF TesterOK
<1> QED
  BY <1>2, <1>3, <1>9, OneTester

LEMMA TestsInit ==
  ASSUME Init
  PROVE  TestsInv
<1>1. /\ tester = [e \in Editors |-> NoTester]
      /\ requests = [q \in Requests |-> NoRequest]
      /\ files = [q \in Requests |-> None]
  BY DEF Init
<1> QED
  BY <1>1, NoTesterOK, NoRequestOK DEF TestsInv, SharedOK, IsFunction

LEMMA TestsStep ==
  ASSUME TestsInv, [Next]_vars
  PROVE  TestsInv'
<1>1. CASE UNCHANGED vars
  BY <1>1, TestsFrame DEF vars
<1>2. ASSUME NEW e \in Editors, Editing(e) \/ Saving(e) \/ Deleting(e)
      PROVE  TestsInv'
  BY <1>2, EditingTests, SavingTests
<1>3. CASE Testing
  BY <1>3, HandleTransactionChangeStep, PressTestStep, TempPathStep, WriteFileStep,
     ExecValidatorStep, TestThrowsStep, UnlinkStep, TestAnsweredStep, FetchFailsStep DEF Testing
<1> QED
  BY <1>1, <1>2, <1>3 DEF Next

(* A test result that is shown, a verdict or an error, is about the         *)
(* transaction and the variation on the page, however answers, edits and    *)
(* the files of other tests overlap, unless its file was shared with        *)
(* another test.                                                            *)
THEOREM ResultOfWhatIsShown == Spec => []ResultIsOfShown
<1>1. Init => TestsInv
  BY TestsInit
<1>2. TestsInv /\ [Next]_vars => TestsInv'
  BY TestsStep
<1>3. TestsInv => ResultIsOfShown
  <2> SUFFICES ASSUME TestsInv, NEW e \in Editors, showResult(e), tester[e].result # None
               PROVE  /\ tester[e].result.input = tester[e].input
                      /\ \/ tester[e].result.variation = variationForTest(e)
                         \/ tester[e].result.mixed
    BY DEF ResultIsOfShown
  <2>1. TesterOK(tester[e], requests)
    BY DEF TestsInv
  <2> QED
    BY <2>1 DEF TesterOK, showResult
<1> QED
  BY <1>1, <1>2, <1>3, PTL DEF Spec
=============================================================================
