----------------------------- MODULE Timetable ------------------------------
(***************************************************************************)
(* How the OUC parsers read a timetable (ouc/graduate_parser.go and        *)
(* undergraduate_parser.go).  A graduate's page is a table of the week: a  *)
(* cell of a weekday's column may span several rows and holds one fragment *)
(* per week expression; or it is the history of the courses taken.  An     *)
(* undergraduate's page is a list of items, or the table of the courses    *)
(* selected.  All end in courses whose fragments are merged.               *)
(*                                                                         *)
(* A name stands for every field that tells two courses of one weekday     *)
(* apart.  What a page says of weeks is a set of tokens: a range of weeks, *)
(* in either order, with a parity.                                         *)
(***************************************************************************)
EXTENDS KeptPlaces, Sequences, FiniteSetsExt, SequencesExt

CONSTANTS
    GraduateWeeks,     \* weeks of the graduate calendar: 23 in the code
    ScheduleWeeks      \* weeks an undergraduate's item may name: 30

ASSUME WeeksAssumption == GraduateWeeks \in Nat \ {0} /\ ScheduleWeeks \in Nat \ {0}

Columns == 0 .. 10     \* two for the labels, one for each weekday; colspans beyond

Course(name, weekday, start, end, weeks) ==
    [name |-> name, weekday |-> weekday, start |-> start, end |-> end, weeks |-> weeks]

-----------------------------------------------------------------------------
(* Weeks.                                                                  *)

HasParity(week, parity) ==
    CASE parity = "odd"   -> week % 2 = 1
      [] parity = "even"  -> week % 2 = 0
      [] parity = "every" -> TRUE
WeeksOf(tokens, last) ==
    {week \in 1 .. last :
        \E t \in tokens :
            /\ week \in (t.from .. t.to) \cup (t.to .. t.from)
            /\ HasParity(week, t.parity)}

(* A graduate's course that names no week takes place in all of them.      *)
GraduateWeeksOf(tokens) ==
    LET weeks == WeeksOf(tokens, GraduateWeeks)
    IN  IF weeks = {} THEN 1 .. GraduateWeeks ELSE weeks

-----------------------------------------------------------------------------
(* Merging.                                                                *)

SameCourse(c, d) == c.name = d.name /\ c.weekday = d.weekday
SamePlacement(c, d) == SameCourse(c, d) /\ c.start = d.start /\ c.end = d.end
Touch(c, d) == d.start <= c.end + 1 /\ d.end >= c.start - 1
Mergeable(c, d) == c # d /\ SameCourse(c, d) /\ c.weeks = d.weeks /\ Touch(c, d)
Joined(c, d) ==
    [c EXCEPT !.start = IF d.start < @ THEN d.start ELSE @,
              !.end = IF d.end > @ THEN d.end ELSE @]

(* mergeGraduateCourse, as a fragment arrives: all with its sections give  *)
(* it their weeks; then courses that touch are collapsed, until none do.   *)
CollapseOne(courses) ==
    LET pairs == {p \in courses \X courses : Mergeable(p[1], p[2])}
        pair == CHOOSE p \in pairs : TRUE
    IN  IF pairs = {} THEN courses
        ELSE (courses \ {pair[1], pair[2]}) \cup {Joined(pair[1], pair[2])}
Collapse(courses) ==
    FoldLeft(LAMBDA cs, i : CollapseOne(cs), courses, [i \in 1 .. Cardinality(courses) |-> i])
MergeGraduateCourse(courses, c) ==
    LET same == {d \in courses : SamePlacement(c, d)}
        whole == [c EXCEPT !.weeks = @ \cup UNION {d.weeks : d \in same}]
    IN  Collapse((courses \ same) \cup {whole})

(* The loops over fragments, and over the lists of them.                   *)
MergeEach(courses, fragments) == FoldLeft(MergeGraduateCourse, courses, fragments)
MergeLists(courses, lists) == FoldLeft(MergeEach, courses, lists)

(* mergeUndergraduateCourses: first all weeks of a placement, then sweeps  *)
(* over the courses with one set of weeks, in the order of their sections. *)
Before(c, d) == c.start < d.start \/ (c.start = d.start /\ c.end < d.end)
Earliest(group) == CHOOSE c \in group : \A d \in group \ {c} : Before(c, d)
SweepOne(swept) ==
    LET next == Earliest(swept.left)
        touch == Touch(swept.current, next)
    IN  [left |-> swept.left \ {next},
         done |-> IF touch THEN swept.done ELSE swept.done \cup {swept.current},
         current |-> IF touch THEN Joined(swept.current, next) ELSE next]
Sweep(group) ==
    LET first == Earliest(group)
        rest == group \ {first}
        swept == FoldLeft(LAMBDA s, i : SweepOne(s),
                          [left |-> rest, done |-> {}, current |-> first],
                          [i \in 1 .. Cardinality(rest) |-> i])
    IN  swept.done \cup {swept.current}
MergeUndergraduateCourses(items) ==
    LET whole == {[c EXCEPT !.weeks = UNION {d.weeks : d \in {d \in items : SamePlacement(c, d)}}] :
                     c \in items}
        group(c) == {d \in whole : SameCourse(c, d) /\ c.weeks = d.weeks}
    IN  UNION {Sweep(group(c)) : c \in whole}

-----------------------------------------------------------------------------
(* A graduate's table: a row is a sequence of cells.                       *)

Cell(rowspan, colspan, label, fragments) ==
    [rowspan |-> rowspan, colspan |-> colspan, label |-> label, fragments |-> fragments]
NoSpans == [column \in Columns |-> 0]

(* graduateRowPlacements: a cell goes to the next column that no cell of   *)
(* an earlier row reaches into; spans counts the rows each still covers.   *)
Free(spans, column) ==
    CHOOSE c \in Columns :
        /\ c >= column /\ spans[c] = 0
        /\ \A d \in column .. (c - 1) : spans[d] > 0
PlaceCell(done, cell, spans) ==
    LET column == Free(spans, done.column)
        under == column .. (column + cell.colspan - 1)
    IN  [placed |-> Append(done.placed, [cell |-> cell, column |-> column]),
         column |-> column + cell.colspan,
         covers |-> [c \in Columns |-> IF c \in under /\ cell.rowspan > 1
                                       THEN cell.rowspan - 1 ELSE done.covers[c]]]
RowPlacements(row, spans) ==
    FoldLeft(LAMBDA done, cell : PlaceCell(done, cell, spans),
             [placed |-> <<>>, column |-> 0, covers |-> NoSpans], row)

SpansKept(spans, covers) ==
    [c \in Columns |-> IF covers[c] > 0 THEN covers[c] ELSE spans[c]]
SpansAfter(spans, covers) ==
    [c \in Columns |-> IF covers[c] > 0 THEN covers[c]
                       ELSE IF spans[c] > 0 THEN spans[c] - 1
                       ELSE 0]

(* graduateSection: the number a label gives, else the row's.              *)
Section(placed, number) ==
    LET labels == {k \in DOMAIN placed :
                      placed[k].column <= 1 /\ placed[k].cell.label \in 1 .. 30}
    IN  IF labels = {} THEN number ELSE placed[Min(labels)].cell.label

(* parseGraduateCourses.                                                   *)
CoursesOfCell(p, section) ==
    LET course(f) == Course(f.name, p.column - 1, section, section + p.cell.rowspan - 1,
                            GraduateWeeksOf(f.tokens))
    IN  IF p.column \notin 2 .. 8 THEN <<>>
        ELSE [i \in DOMAIN p.cell.fragments |-> course(p.cell.fragments[i])]
ReadRow(done, row, number) ==
    LET placements == RowPlacements(row, done.spans)
        section == Section(placements.placed, number)
    IN  [spans |-> SpansAfter(done.spans, placements.covers),
         courses |-> MergeLists(done.courses,
                                [k \in DOMAIN placements.placed |->
                                    CoursesOfCell(placements.placed[k], section)])]
ParseGraduateCourses(table) ==
    FoldLeft(LAMBDA done, number : ReadRow(done, table[number], number),
             [spans |-> NoSpans, courses |-> {}],
             [number \in DOMAIN table |-> number]).courses

(* parseGraduateCourseHistory: a row of the history has one entry for each *)
(* meeting, [tokens, weekday, from, to, location]; no `to' is 0.           *)
LastSection(text) == IF text.to = 0 THEN text.from ELSE text.to
HistoryCourses(row, period) ==
    LET valid == {i \in DOMAIN row.entries :
                     /\ row.entries[i].from >= 1
                     /\ LastSection(row.entries[i]) >= row.entries[i].from}
        course(e) == Course(<<row.name, e.location>>, e.weekday, e.from, LastSection(e),
                            GraduateWeeksOf(e.tokens))
        courses == [i \in DOMAIN row.entries |-> course(row.entries[i])]
    IN  IF row.name = "" \/ (period # "" /\ row.period # period) THEN <<>>
        ELSE Kept(courses, valid)
ParseGraduateHistory(rows, period) ==
    MergeLists({}, [i \in DOMAIN rows |-> HistoryCourses(rows[i], period)])

(* parseGraduateCourses: the history, if the page has it, else the week.   *)
Unread == [error |-> TRUE, courses |-> {}]
Courses(courses) == [error |-> FALSE, courses |-> courses]
ParseGraduatePage(page, period) ==
    IF "history" \in DOMAIN page THEN Courses(ParseGraduateHistory(page.history, period))
    ELSE IF "week" \in DOMAIN page THEN Courses(ParseGraduateCourses(page.week))
    ELSE Unread

-----------------------------------------------------------------------------
(* An undergraduate's texts: what one says of weeks, of a weekday (0: not  *)
(* at all) and of sections, from `from' (0: none) to `to' (0: not named).  *)

Text(tokens, weekday, from, to) ==
    [tokens |-> tokens, weekday |-> weekday, from |-> from, to |-> to]
NoText == Text({}, 0, 0, 0)

WeeksIn(text) == WeeksOf(text.tokens, ScheduleWeeks)
SectionsIn(text) ==
    IF text.from > 0 /\ LastSection(text) >= text.from
    THEN <<text.from, LastSection(text)>> ELSE <<0, 0>>

(* parseUndergraduateScheduleFields: an item of the earlier page says all  *)
(* in one text.                                                            *)
ScheduleFields(item) ==
    [weeks |-> IF WeeksIn(item.weeks) # {} THEN WeeksIn(item.weeks)
               ELSE WeeksIn(item.legacy),
     sections |-> IF SectionsIn(item.sections) # <<0, 0>> THEN SectionsIn(item.sections)
                  ELSE SectionsIn(item.legacy)]

(* weekdayFromTable: the widths of the cells between the row's label and   *)
(* the item's cell; a row may have no label.                               *)
WeekdayInTable(cell) ==
    IF cell.labelled THEN FoldLeft(LAMBDA n, width : n + width, 1, cell.before) ELSE 0
WeekdayOf(item) ==
    IF item.weeks.weekday # 0 THEN item.weeks.weekday
    ELSE IF item.legacy.weekday # 0 THEN item.legacy.weekday
    ELSE WeekdayInTable(item.cell)

(* parseUndergraduateCourses: an item without weeks or sections, or with   *)
(* no weekday, is left out.                                                *)
Placed(c) == c.weeks # {} /\ c.start > 0 /\ c.weekday # 0
ParseUndergraduateCourses(items) ==
    LET course(i) ==
            LET fields == ScheduleFields(i)
            IN  Course(i.name, WeekdayOf(i), fields.sections[1], fields.sections[2], fields.weeks)
    IN  MergeUndergraduateCourses({c \in {course(i) : i \in items} : Placed(c)})

(* parseUndergraduateCourseSelectionSchedule: a row's cells list meetings  *)
(* and locations, one for each meeting or one for all.                     *)
SplitCell(parts) == SelectSeq(parts, LAMBDA part : part # "")
LocationOf(locations, i) ==
    IF Len(locations) = 1 THEN locations[1]
    ELSE IF i \in DOMAIN locations THEN locations[i]
    ELSE ""
ParseSelectionSchedule(rows) ==
    LET courses(row) ==
            LET locations == SplitCell(row.locations)
                course(i) ==
                    LET meeting == row.meetings[i]
                    IN  Course(<<row.name, LocationOf(locations, i)>>, meeting.weekday,
                               SectionsIn(meeting)[1], SectionsIn(meeting)[2], WeeksIn(meeting))
            IN  IF row.name = "" THEN {} ELSE {course(i) : i \in DOMAIN row.meetings}
    IN  MergeUndergraduateCourses({c \in UNION {courses(r) : r \in ToSet(rows)} : Placed(c)})

-----------------------------------------------------------------------------
(* What a timetable says: who is taught when.                              *)

Lessons(courses) ==
    UNION {{<<c.name, c.weekday, section, week>> : section \in c.start .. c.end, week \in c.weeks} :
              c \in courses}
Merged(courses) == \A c, d \in courses : ~Mergeable(c, d)

(* What the school shows: a timetable is filled, by the blocks of each     *)
(* weekday's column; a meeting names its weekday and its first section.    *)
Token == [from : Nat, to : Nat, parity : {"odd", "even", "every"}]
AnyBlock ==
    [first : Nat, rows : Nat, fragments : Seq([name : STRING, tokens : SUBSET Token])]
AnyMeeting == [tokens : SUBSET Token, weekday : 1 .. 7, from : Nat \ {0}, to : Nat]
AnyEntry ==
    [tokens : SUBSET Token, weekday : 1 .. 7, from : Nat \ {0}, to : Nat, location : STRING]
AnyHistoryRow == [name : STRING, period : STRING, entries : Seq(AnyEntry)]
AnyItem ==
    [name : STRING, meeting : AnyMeeting, form : {"current", "listed", "mixed", "legacy"}]
AnySelectedRow == [name : STRING, meetings : Seq(AnyMeeting), locations : Seq(STRING)]

(* The page rendered for a timetable of so many sections: a row has the    *)
(* label of its half of the day, which spans all of them, its own label,   *)
(* and the blocks that start in it.                                        *)
InBlock(block, section) == section \in block.first .. (block.first + block.rows - 1)
Filled(column, sections) ==
    /\ \A block \in column :
          /\ block.first \in 1 .. sections /\ block.rows \in 1 .. sections
          /\ block.first + block.rows - 1 <= sections
    /\ \A section \in 1 .. sections : \E block \in column : InBlock(block, section)
    /\ \A b, c \in column : \A section \in 1 .. sections :
          InBlock(b, section) /\ InBlock(c, section) => b = c
SchoolTimetable(timetable, sections) ==
    /\ timetable \in Seq(SUBSET AnyBlock) /\ Len(timetable) <= 7
    /\ \A weekday \in DOMAIN timetable : Filled(timetable[weekday], sections)
BlockAt(column, r) == CHOOSE block \in column : block.first = r
Starting(timetable, r) ==      \* the columns in which a cell starts
    {c \in 0 .. (Len(timetable) + 1) :
        /\ c = 0 => r = 1
        /\ c > 1 => \E block \in timetable[c - 1] : block.first = r}
CellAt(timetable, sections, r, c) ==
    CASE c = 0 -> Cell(sections, 1, 0, <<>>)
      [] c = 1 -> Cell(1, 1, r, <<>>)
      [] OTHER -> Cell(BlockAt(timetable[c - 1], r).rows, 1, 0,
                       BlockAt(timetable[c - 1], r).fragments)
TablePage(timetable, sections) ==
    [r \in 1 .. sections |->
        LET starting == Starting(timetable, r)
        IN  Kept([c \in starting |-> CellAt(timetable, sections, r, c)], starting)]
BlockLessons(weekday, block) ==
    UNION {{<<f.name, weekday, section, week>> :
               section \in block.first .. (block.first + block.rows - 1),
               week \in GraduateWeeksOf(f.tokens)} :
              f \in ToSet(block.fragments)}
LessonsOf(timetable) ==
    UNION {UNION {BlockLessons(weekday, block) : block \in timetable[weekday]} :
              weekday \in DOMAIN timetable}

(* The lessons of a meeting, a text that says all of it; of a history; of  *)
(* items, each a named meeting written in some form; of a selection.       *)
MeetingLessons(name, meeting, weeks) ==
    {<<name, meeting.weekday, section, week>> :
        section \in meeting.from .. LastSection(meeting), week \in weeks}
HistoryLessons(rows, period) ==
    UNION {UNION {MeetingLessons(<<row.name, e.location>>, e, GraduateWeeksOf(e.tokens)) :
                     e \in ToSet(row.entries)} :
              row \in {r \in ToSet(rows) : r.name # "" /\ period \in {"", r.period}}}
ItemOf(name, meeting, form) ==
    LET says(weeks, weekday, sections) ==
            Text(IF weeks THEN meeting.tokens ELSE {},
                 IF weekday THEN meeting.weekday ELSE 0,
                 IF sections THEN meeting.from ELSE 0,
                 IF sections THEN meeting.to ELSE 0)
        item(weeks, sections, legacy, cell) ==
            [name |-> name, weeks |-> weeks, sections |-> sections, legacy |-> legacy,
             cell |-> cell]
        unlabelled == [labelled |-> FALSE, before |-> <<>>]
        column == [labelled |-> TRUE, before |-> [d \in 1 .. (meeting.weekday - 1) |-> 1]]
    IN  CASE form = "current" ->
                 item(says(TRUE, FALSE, FALSE), says(FALSE, FALSE, TRUE), NoText, column)
          [] form = "listed"  ->
                 item(says(TRUE, TRUE, FALSE), says(FALSE, FALSE, TRUE), NoText, unlabelled)
          [] form = "mixed"   ->
                 item(says(TRUE, FALSE, FALSE), NoText, says(FALSE, TRUE, TRUE), unlabelled)
          [] form = "legacy"  -> item(NoText, NoText, says(TRUE, TRUE, TRUE), unlabelled)
ItemLessons(shown) ==
    UNION {MeetingLessons(i.name, i.meeting, WeeksIn(i.meeting)) : i \in shown}
SelectionLessons(rows) ==
    UNION {UNION {MeetingLessons(<<row.name, LocationOf(SplitCell(row.locations), i)>>,
                                 row.meetings[i], WeeksIn(row.meetings[i])) :
                     i \in DOMAIN row.meetings} :
              row \in {r \in ToSet(rows) : r.name # ""}}
=============================================================================
