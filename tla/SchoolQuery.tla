---------------------------- MODULE SchoolQuery -----------------------------
(***************************************************************************)
(* A query of the OUC provider from its configuration to its answer        *)
(* (queryWithOperationAndValues and ListCourseCatalogPage in               *)
(* ouc/provider.go): the request is prepared from a validated operation    *)
(* (AcademicRequest), sent with a session of the target (SsoLogin), and    *)
(* the page of an accepted answer is read (Timetable, AcademicRecords,     *)
(* CourseCatalog).  What an operation reads with a second request, or a    *)
(* reader with the next, is the page of another accepted answer.           *)
(***************************************************************************)
EXTENDS SsoLogin, CourseCatalog, Timetable

CONSTANTS
    Operations,       \* what the configuration may say of an operation
    Periods,          \* the periods a caller may name
    Timetables,       \* the graduate timetables the school may show, each a
    Sections,         \* sequence of columns of so many sections
    Histories,        \* the graduate histories
    ItemSets,         \* the items an undergraduate's timetable may consist of
    Selected,         \* the tables of selected courses
    GradeRows,        \* the rows of an undergraduate's grades,
    SelectionRows,    \* of course selections and of their supplement,
    TranscriptRows,   \* and of a graduate's transcript
    Catalogs,         \* the course catalogs, and the size asked for
    MaxCatalogPage    \* maxCourseCatalogPage, 500 in the code

ASSUME ConfigurationAssumption ==
    /\ Operations \subseteq Operation
    /\ \A period \in Periods : period \in Seq(STRING)
    /\ Sections \in Nat \ {0}
    /\ \A timetable \in Timetables : SchoolTimetable(timetable, Sections)
    /\ Histories \subseteq Seq(AnyHistoryRow)
    /\ \A shown \in ItemSets : shown \subseteq AnyItem /\ IsFiniteSet(shown)
    /\ Selected \subseteq Seq(AnySelectedRow)
    /\ GradeRows \subseteq Seq(AnyGradeRow)
    /\ SelectionRows \subseteq Seq(AnySelectionRow)
    /\ TranscriptRows \subseteq Seq(AnyTranscriptRow)
    /\ \A catalog \in Catalogs : catalog.shown \in SchoolCatalog /\ catalog.size \in Nat \ {0}
    /\ MaxCatalogPage \in Nat \ {0}

VARIABLES
    asked,       \* the query prepared, until it is sent
    taught,      \* the timetable shown and the courses read from it
    listed       \* the records shown and those read

allVars == <<vars, asked, taught, listed>>

NotAsked == [kind |-> "none"]
NothingTaught == [page |-> "none"]
NothingListed == [kind |-> "none"]

QueryInit == Init /\ asked = NotAsked /\ taught = NothingTaught /\ listed = NothingListed

School == Next /\ UNCHANGED <<asked, taught, listed>>

(* A catalog query names its page, the supplement of an undergraduate's    *)
(* selections its own values, and any other query none.                    *)
Extra(kind, o) ==
    CASE kind = "catalog"    -> CatalogValues(o)
      [] kind = "supplement" -> SupplementValues
      [] OTHER -> NoValues
QueryKinds == {"periods", "courses", "supplement", "catalog"}
Prepare ==
    /\ at = "start" /\ conversation = "query"
    /\ \E kind \in QueryKinds, o \in Operations, period \in Periods :
        /\ ValidEndpoint(kind, o) /\ o.path # "none"
        /\ kind = "catalog" => period # <<>>
        /\ LET made == AcademicRequest(o, period, Extra(kind, o))
           IN  IF made.error
               THEN End("unavailable") /\ UNCHANGED asked
               ELSE /\ asked' = [kind |-> kind, operation |-> o, period |-> period, made |-> made]
                    /\ at' = "prepared"
                    /\ UNCHANGED <<request, hops, posted, outcome>>
    /\ UNCHANGED <<conversation, ended, taught, listed>>

SubmitQuery ==
    /\ at = "prepared"
    /\ LET hasBody == asked.made.method = "POST" /\ DOMAIN asked.made.values # {}
       IN  Send("query", [method |-> asked.made.method, url |-> "target",
                          body |-> IF hasBody THEN "values" ELSE "none"])
    /\ asked' = NotAsked
    /\ UNCHANGED <<conversation, ended, taught, listed>>

(* The answer is read once, whatever was asked on the way to it.           *)
Accepted ==
    /\ at = "done" /\ outcome = "accepted"
    /\ taught = NothingTaught /\ listed = NothingListed
    /\ ended' = Nowhere
    /\ UNCHANGED <<conversation, at, request, hops, posted, outcome, asked>>
Teach(page, shown, read) ==
    taught' = [page |-> page, shown |-> shown, courses |-> read.courses, error |-> read.error]
ReadTimetable ==
    /\ Accepted
    /\ \/ \E timetable \in Timetables :
              Teach("week", timetable,
                    ParseGraduatePage([week |-> TablePage(timetable, Sections)], "period"))
       \/ \E rows \in Histories :
              Teach("history", rows, ParseGraduatePage([history |-> rows], "period"))
       \/ Teach("other", <<>>, ParseGraduatePage([other |-> <<>>], "period"))
       \/ \E shown \in ItemSets :
              Teach("items", shown,
                    Courses(ParseUndergraduateCourses(
                        {ItemOf(i.name, i.meeting, i.form) : i \in shown})))
       \/ \E rows \in Selected :
              Teach("selected", rows, Courses(ParseSelectionSchedule(rows)))
    /\ UNCHANGED listed

(* ListCourses: a week without courses is followed by the history.         *)
ReadFallback ==
    /\ taught.page = "week" /\ ~taught.error /\ taught.courses = {}
    /\ \E rows \in Histories :
          Teach("history", rows, ParseGraduatePage([history |-> rows], "period"))
    /\ UNCHANGED <<vars, asked, listed>>

(* ListGrades.                                                             *)
List(kind, shown, records) == listed' = [kind |-> kind, shown |-> shown, records |-> records]
TranscriptPage(rows) == <<[headers |-> {"year"}, rows |-> <<>>],
                          [headers |-> Transcript, rows |-> rows]>>
ReadGrades ==
    /\ Accepted
    /\ \/ \E rows \in GradeRows, shape \in AnswerShapes :
              \E found \in TabularRows(AnswerIn(shape, rows)) :
                  List("grades", rows, ParseGrades(found, "period"))
       \/ \E rows \in TranscriptRows, period \in {<<>>, <<2025, "autumn">>} :
              \E found \in GraduateRows(TranscriptPage(rows), Transcript) :
                  List("transcript", <<rows, period>>, ParseGraduateGrades(found, period))
    /\ UNCHANGED taught

(* ListCourseSelections: an undergraduate's are supplemented by the courses *)
(* they withdrew from, unless that request or its answer fails.            *)
ReadSelections ==
    /\ Accepted
    /\ \/ \E rows \in SelectionRows :
              \E selections \in ParseSelections(rows, "period") :
                  List("selections", <<rows>>, FilterHidden(selections))
       \/ \E rows \in TranscriptRows, period \in {<<>>, <<2025, "autumn">>} :
              \E found \in GraduateRows(TranscriptPage(rows), Transcript) :
              \E selections \in ParseGraduateSelections(found, period) :
                  List("chosen", <<rows, period>>, selections)
    /\ UNCHANGED taught
ReadSupplement ==
    /\ listed.kind = "selections"
    /\ \E rows \in SelectionRows :
          LET supplement == ParseSelections(rows, "period")
          IN  List("supplemented",
                   IF supplement = {} THEN listed.shown ELSE Append(listed.shown, rows),
                   IF supplement = {} THEN listed.records
                   ELSE MergeSelections(listed.records, CHOOSE s \in supplement : TRUE))
    /\ UNCHANGED <<vars, asked, taught>>

(* A reader of the catalog follows has_more; a page that is not as agreed, *)
(* or beyond the last that may be asked for, is an error.                  *)
Turn(catalog, page, records) ==
    LET read == ReadPage(catalog.shown, page, catalog.size)
    IN  listed' = IF page > MaxCatalogPage \/ read.error THEN [kind |-> "unreadable"]
                  ELSE [kind |-> "catalog", shown |-> catalog.shown, size |-> catalog.size,
                        page |-> page, records |-> records \o read.entries,
                        more |-> read.hasMore, total |-> read.total]
OpenCatalog == Accepted /\ (\E catalog \in Catalogs : Turn(catalog, 1, <<>>)) /\ UNCHANGED taught
TurnPage ==
    /\ listed.kind = "catalog" /\ listed.more
    /\ Turn(listed, listed.page + 1, listed.records)
    /\ UNCHANGED <<vars, asked, taught>>

QueryNext ==
    \/ School \/ Prepare \/ SubmitQuery
    \/ ReadTimetable \/ ReadFallback \/ ReadGrades \/ ReadSelections \/ ReadSupplement
    \/ OpenCatalog \/ TurnPage

QuerySpec == QueryInit /\ [][QueryNext]_allVars

-----------------------------------------------------------------------------
(* Properties.                                                             *)

(* validateFixedParameters: "parameters cannot override mapped             *)
(* parameters".  A query that has a period, and whose path does not        *)
(* contain it, tells the school each part of the period and every fixed    *)
(* parameter: none hides another, unless validateEndpoint does not see     *)
(* that they have one name.  It compares a fixed parameter with names that *)
(* are not trimmed (FixedUnseen), and neither a page nor the supplement's  *)
(* values with the names of the period, nor a page with its size.  With no *)
(* period, or one in the path, academicRequestWithValues drops the fixed   *)
(* parameters; the page, and the supplement's values, are told by every    *)
(* query, but then by no form.                                             *)
ToldExtra(kind, o, values) ==
    CASE kind = "catalog"    -> ToldPage(o, values)
      [] kind = "supplement" ->
             \A n \in DOMAIN SupplementValues : Tells(values, n, SupplementValues[n])
      [] OTHER -> TRUE
QueryComplete ==
    asked # NotAsked /\ (asked.kind = "catalog" => PagedApart(asked.operation)) =>
        LET o == asked.operation
            extra == Extra(asked.kind, o)
        IN  /\ /\ asked.period # <<>> /\ ~InPath(o, asked.period)
               /\ ~FixedUnseen(o)
               /\ DOMAIN extra \cap PeriodNames(o) = {}
               => Told(o, asked.period, extra, asked.made.values)
            /\ ~InPath(o, asked.period) \/ o.encoding = "query"
               => ToldExtra(asked.kind, o, asked.made.values)

(* The courses read from a page are the lessons the page shows, neither    *)
(* more nor fewer, in every section and week, and no two of them could     *)
(* still be merged: what parseGraduateCourses finds under rowspans,        *)
(* parseGraduateCourseHistory and the undergraduate parsers in texts, and  *)
(* mergeGraduateCourse and mergeUndergraduateCourses make of fragments.    *)
LessonsShown ==
    CASE taught.page = "week"     -> LessonsOf(taught.shown)
      [] taught.page = "history"  -> HistoryLessons(taught.shown, "period")
      [] taught.page = "items"    -> ItemLessons(taught.shown)
      [] taught.page = "selected" -> SelectionLessons(taught.shown)
TimetableKept ==
    taught # NothingTaught /\ ~taught.error =>
        Lessons(taught.courses) = LessonsShown /\ Merged(taught.courses)

(* parseGrades, parseGraduateGrades, and ListCourseSelections with its     *)
(* supplement: each grade that the school has released, and each selection *)
(* that is not hidden, is returned as its row shows it, and nothing else   *)
(* is, whichever of the answers showed it.  Of an undergraduate's rows     *)
(* with one key (cj0708id), which a grade's id need not tell, one is       *)
(* returned, and every row without a key; of selections, one where two     *)
(* answers are joined.                                                     *)
SameGrade(row, other) == row.key # "" /\ row.key = other.key
OneOfEach(rows, places) ==
    /\ \A i \in places : rows[i].name # ""
    /\ \A i, j \in places : i # j => ~SameGrade(rows[i], rows[j])
    /\ \A i \in DOMAIN rows \ places :
           rows[i].name # "" => \E j \in places : SameGrade(rows[i], rows[j])
GradesAt(rows, places) == Kept([i \in DOMAIN rows |-> Grade(rows[i], i, "period")], places)
OfPeriod(row, period) == period = <<>> \/ <<row.year, row.term>> = period
InTranscript(rows, period, terms) ==
    {i \in DOMAIN rows :
        /\ rows[i].name # "" /\ rows[i].cells >= Cardinality(Transcript)
        /\ rows[i].year # 0 /\ rows[i].term \in terms /\ OfPeriod(rows[i], period)}
Released(rows) == {i \in DOMAIN rows : GraduateGradeValue(rows[i]) # {}}
SameRows(records, rows) ==
    /\ Len(records) = Len(rows)
    /\ \A n \in DOMAIN rows :
        /\ records[n].name = rows[n].name
        /\ records[n].period = {<<rows[n].year, rows[n].term>>}
WithdrawnFrom(row) ==
    "withdrawn" \in ResultOf(row) /\ ResultOf(row) \cap {"personal", "administrator"} # {}
VisibleIn(pages) ==
    UNION {{Selection(p[i], i, "period") :
               i \in {i \in DOMAIN p :
                         /\ p[i].name # "" /\ ~WithdrawnFrom(p[i])
                         /\ p[i].at # "April 2026"}} :
              p \in ToSet(pages)}
RecordsKept ==
    /\ listed.kind = "grades" =>
           \E places \in SUBSET DOMAIN listed.shown :
               /\ OneOfEach(listed.shown, places)
               /\ listed.records = GradesAt(listed.shown, places)
    /\ listed.kind = "transcript" =>
           LET rows == listed.shown[1]
           IN  SameRows(listed.records,
                        Kept(rows, InTranscript(rows, listed.shown[2], {"autumn", "spring", ""})
                                       \cap Released(rows)))
    /\ listed.kind = "chosen" =>
           LET rows == listed.shown[1]
           IN  SameRows(listed.records,
                        Kept(rows, InTranscript(rows, listed.shown[2], {"autumn", "spring"})))
    /\ listed.kind \in {"selections", "supplemented"} =>
           /\ ToSet(listed.records) = VisibleIn(listed.shown)
           /\ Len(listed.shown) = 2 => IsInjective(listed.records)

(* ListCourseCatalogPage: whoever follows has_more from the first page on  *)
(* has read every row of an unchanged catalog once, in its order, when     *)
(* there is no more, and was told how many there are, as far as the        *)
(* school's pages say how they are sized (SizeKnown).                      *)
CatalogReadOnce ==
    listed.kind = "catalog" /\ ~listed.more /\ SizeKnown(listed.shown, listed.size) =>
        /\ listed.records = [k \in 1 .. listed.shown.rows |-> {k}]
        /\ listed.total = listed.shown.rows
=============================================================================
