--------------------------- MODULE AcademicRecords ---------------------------
(***************************************************************************)
(* The tables of the OUC that are lists of records: grades and course      *)
(* selections (ouc/parser.go, graduate_parser.go, and ListCourseSelections *)
(* in provider.go).                                                        *)
(*                                                                         *)
(* A row's name stands for the fields that a record takes over as they     *)
(* are; a text is the set of the words in it that the code looks for.      *)
(* What may be missing is a set of at most one element.                    *)
(***************************************************************************)
EXTENDS KeptPlaces, Sequences, FiniteSetsExt, SequencesExt

Words == SUBSET STRING
AnyGradeRow ==
    [name : STRING, id : STRING,      \* id or grade_id
     key : STRING,                    \* cj0708id
     period : STRING, grade : STRING, score : Int]
AnySelectionRow ==
    [name : STRING, id : STRING, period : STRING, at : STRING,
     status : Words, withdrawal : Words, state : Words, result : Words]
AnyTranscriptRow ==
    [name : STRING, cells : Nat, year : Nat, term : STRING, result : Seq(STRING) \ {<<>>},
     score : Int]

-----------------------------------------------------------------------------
(* The rows of an answer.                                                  *)

(* unwrapRows: the rows are an array, or under the first of some keys that *)
(* leads to one; what is not an object in the array is left out.  Here an  *)
(* object is followed into another and no deeper, as far as AnswerIn goes. *)
RowKeys == <<"data", "rows", "list", "result", "items">>
Junk == [junk |-> TRUE]
ArrayRows(payload) ==
    IF payload.shape # "array" THEN {}
    ELSE {Kept(payload.rows, {i \in DOMAIN payload.rows : payload.rows[i] # Junk})}
Leads(found) ==      \* of what is found under each key
    LET leading == {k \in DOMAIN RowKeys : RowKeys[k] \in DOMAIN found /\ found[RowKeys[k]] # {}}
    IN  IF leading = {} THEN {} ELSE found[RowKeys[Min(leading)]]
FieldRows(payload) ==
    IF payload.shape # "object" THEN ArrayRows(payload)
    ELSE Leads([key \in DOMAIN payload.fields |-> ArrayRows(payload.fields[key])])
UnwrapRows(payload) ==
    IF payload.shape # "object" THEN ArrayRows(payload)
    ELSE Leads([key \in DOMAIN payload.fields |-> FieldRows(payload.fields[key])])

(* htmlRows: the rows of all tables below their headers.                   *)
HtmlRows(tables) == IF FlattenSeq(tables) = <<>> THEN {} ELSE {FlattenSeq(tables)}
TabularRows(answer) ==
    IF answer.encoding = "html" THEN HtmlRows(answer.tables) ELSE UnwrapRows(answer.payload)

(* The answers with the same rows that differ in how they carry them.      *)
AnswerShapes == {"array", "rows", "nested", "table", "tables"}
AnswerIn(shape, rows) ==
    LET array == [shape |-> "array", rows |-> rows]
        object(fields) == [shape |-> "object", fields |-> fields]
        json(payload) == [encoding |-> "json", payload |-> payload]
    IN  CASE shape = "array"  -> json([shape |-> "array", rows |-> rows \o <<Junk>>])
          [] shape = "rows"   -> json(object([list |-> array, code |-> [shape |-> "number"]]))
          [] shape = "nested" -> json(object([data |->
                 object([list |-> object([total |-> [shape |-> "number"]]), items |-> array])]))
          [] shape = "table"  -> [encoding |-> "html", tables |-> <<<<>>, rows>>]
          [] shape = "tables" -> [encoding |-> "html",
                                  tables |-> [i \in DOMAIN rows |-> <<rows[i]>>]]

(* findGraduateHTMLTable, graduateTableRows: the first table that has the  *)
(* headers, without its rows of fewer cells.                               *)
GraduateRows(tables, headers) ==
    LET fitting == {t \in DOMAIN tables : headers \subseteq tables[t].headers}
        table == tables[Min(fitting)]
        full == {i \in DOMAIN table.rows : table.rows[i].cells >= Cardinality(table.headers)}
    IN  IF fitting = {} THEN {} ELSE {Kept(table.rows, full)}

(* graduatePeriod; a year that does not name two successive ones is 0.     *)
GraduatePeriod(row) ==
    IF row.year # 0 /\ row.term \in {"autumn", "spring"} THEN {<<row.year, row.term>>} ELSE {}

(* Records, a function of the places of their rows, in the rows' order; an *)
(* id that the school does not give comes from the row's place.            *)
Records(recordOf) == Kept(recordOf, DOMAIN recordOf)
RecordId(row, i) == IF row.id = "" THEN <<row.name, i>> ELSE <<row.id, 0>>
OwnPeriod(row, period) == IF row.period = "" THEN period ELSE row.period

-----------------------------------------------------------------------------
(* Grades.                                                                 *)

(* parseGrades: of the named rows with one key of the school's, the first. *)
(* A record is named by its row's own id, or else by the key.              *)
ConvertedScore(level) ==
    CASE level \in {"excellent", "exempt"} -> 90
      [] level = "passed"    -> 85
      [] level = "good"      -> 80
      [] level = "medium"    -> 70
      [] level = "qualified" -> 60
      [] OTHER -> 0
UndergraduateScore(row) ==
    CASE row.grade = "number" -> [score |-> {row.score}, level |-> {}]
      [] row.grade = ""       -> [score |-> {}, level |-> {}]
      [] OTHER -> [score |-> {ConvertedScore(row.grade)}, level |-> {row.grade}]
FirstOfKey(rows, i) ==
    /\ rows[i].name # ""
    /\ rows[i].key # "" =>
           ~\E j \in 1 .. (i - 1) : rows[j].key = rows[i].key /\ rows[j].name # ""
Grade(row, i, period) ==
    [id |-> IF row.id = "" /\ row.key # "" THEN <<row.key, 0>> ELSE RecordId(row, i),
     period |-> OwnPeriod(row, period), name |-> row.name, value |-> UndergraduateScore(row)]
ParseGrades(rows, period) ==
    Records([i \in {i \in DOMAIN rows : FirstOfKey(rows, i)} |-> Grade(rows[i], i, period)])

(* graduateGradeValue: a result is a sequence of parts, the last of which  *)
(* is the grade, unless it has not been released.                          *)
Unreleased == {"", "unselected", "selecting", "swapped", "applying", "studying", "repeating"}
NormalLevel(word) ==
    CASE word \in {"qualified", "passed"}       -> "pass"
      [] word \in {"unqualified", "not passed"} -> "fail"
      [] OTHER -> word
GraduateGradeValue(row) ==
    LET words == ToSet(row.result)
        grade == Last(row.result)
    IN  IF "applying" \in words THEN {}
        ELSE IF "exempt" \in words THEN {[score |-> {}, level |-> {"exempt"}]}
        ELSE IF grade \in Unreleased THEN {}
        ELSE IF grade = "number" THEN
                 IF row.score \in 0 .. 100 THEN {[score |-> {row.score}, level |-> {}]} ELSE {}
        ELSE {[score |-> {}, level |-> {NormalLevel(grade)}]}

(* graduateGradePeriodID: a grade whose row names no term has its year.    *)
GraduateGradePeriod(row) ==
    IF row.year # 0 /\ row.term = "" THEN {<<row.year, "">>} ELSE GraduatePeriod(row)

(* parseGraduateGrades, parseGraduateSelections; no period is <<>>.        *)
Transcript == {"number", "name", "kind", "credit", "year", "term", "result"}
InPeriod(periods, period) == periods # {} /\ (period # <<>> => periods = {period})
ParseGraduateGrades(rows, period) ==
    LET has(i) ==
            /\ InPeriod(GraduateGradePeriod(rows[i]), period)
            /\ rows[i].name # ""
            /\ GraduateGradeValue(rows[i]) # {}
        grade(row, i) ==
            [id |-> <<row.name, i>>, period |-> GraduateGradePeriod(row), name |-> row.name,
             value |-> GraduateGradeValue(row)]
    IN  Records([i \in {i \in DOMAIN rows : has(i)} |-> grade(rows[i], i)])

-----------------------------------------------------------------------------
(* Course selections.                                                      *)

(* normalizeCourseSelectionStatus, graduateSelectionStatus.                *)
SelectionStatus(words) ==
    IF words \cap {"pending", "waiting"} # {} THEN "pending"
    ELSE IF words \cap {"failed", "lost", "withdrawn"} # {} THEN "failed"
    ELSE "selected"
GraduateSelectionStatus(words) ==
    IF "unselected" \in words THEN "failed"
    ELSE IF words \cap {"applying", "swapped"} # {} THEN "pending"
    ELSE "selected"

(* parseSelections: the first text there is tells the status, and the      *)
(* first there is after the status itself the result, which is what a      *)
(* failed selection has in place of its schedule.  A result may be too     *)
(* long to be read at all.                                                 *)
FirstText(texts) ==
    LET said == SelectSeq(texts, LAMBDA words : words # {})
    IN  IF said = <<>> THEN {} ELSE said[1]
ResultOf(row) == FirstText(<<row.result, row.withdrawal, row.state>>)
StatusOf(row) == SelectionStatus(FirstText(<<row.status, row.withdrawal, row.state>>))
TooLong(row) == row.name # "" /\ "long" \in ResultOf(row)
Selection(row, i, period) ==
    [id |-> RecordId(row, i), period |-> OwnPeriod(row, period), name |-> row.name,
     status |-> StatusOf(row), result |-> ResultOf(row), at |-> row.at,
     schedule |-> IF StatusOf(row) = "failed" /\ ResultOf(row) # {} THEN ResultOf(row)
                  ELSE {"schedule"}]
ParseSelections(rows, period) ==
    IF \E i \in DOMAIN rows : TooLong(rows[i]) THEN {}
    ELSE {Records([i \in {i \in DOMAIN rows : rows[i].name # ""} |->
                      Selection(rows[i], i, period)])}

ParseGraduateSelections(rows, period) ==
    LET has == {i \in DOMAIN rows :
                   InPeriod(GraduatePeriod(rows[i]), period) /\ rows[i].name # ""}
        selection(row, i) ==
            [id |-> <<row.name, i>>, period |-> GraduatePeriod(row), name |-> row.name,
             status |-> GraduateSelectionStatus(ToSet(row.result)), result |-> ToSet(row.result)]
    IN  IF \E i \in has : "long" \in ToSet(rows[i].result) THEN {}
        ELSE {Records([i \in has |-> selection(rows[i], i)])}

(* filterHiddenUndergraduateSelections: withdrawals in person or by an     *)
(* administrator, and all that was selected in April 2026.                 *)
Hidden(s) ==
    \/ {"personal", "withdrawn"} \subseteq s.result
    \/ {"administrator", "withdrawn"} \subseteq s.result
    \/ s.at = "April 2026"
FilterHidden(selections) ==
    Kept(selections, {n \in DOMAIN selections : ~Hidden(selections[n])})

(* mergeCourseSelections: the supplement's after the others, no two alike. *)
SupplementedWhole(selections, supplement) == selections \o supplement
Supplemented(selections, supplement) == selections \o FilterHidden(supplement)
MergeSelections(selections, supplement) ==
    LET all == Supplemented(selections, supplement)
    IN  Kept(all, {n \in DOMAIN all : \A m \in 1 .. (n - 1) : all[m] # all[n]})
=============================================================================
