---------------------------- MODULE MCSchoolQuery ---------------------------
(* Model-checking instance of SchoolQuery.                                 *)
EXTENDS SchoolQuery, TLC

Padded(name) == [name |-> name, blanks |-> TRUE]
OperationSamples ==
    [path : {"fixed", "numbered", "placeholder", "leading", "absolute"},
     method : {"GET", "POST"}, encoding : {"query", "form", "json"},
     period : {NoName, Padded("none"), Plain("term"), Padded("term")},
     periods : {<<>>, <<Plain("year"), Plain("term")>>, <<Plain("year"), Padded("term")>>,
                <<Plain("year"), Padded("year")>>, <<Plain("year"), Padded("none")>>},
     separator : {"none", "dash"},
     fixed : {{}, {Plain("kind")}, {Plain("kind"), Plain("term")}, {Padded("kind")},
              {Plain("page")}},
     page : {NoName, Plain("page"), Padded("page"), Plain("term")},
     sizeName : {NoName, Plain("size"), Padded("page")}, size : {0, 1, 501}]
PeriodSamples == {<<>>, <<"first">>, <<"first", "second">>, <<"first", "empty">>}

(* One column of three sections, the first of two, the second of one or of *)
(* two weekdays, and their fragments.                                      *)
Odd == [from |-> 3, to |-> 1, parity |-> "odd"]
Early == [from |-> 1, to |-> 2, parity |-> "every"]
Fragment(tokens) == [name |-> "algebra", tokens |-> tokens]
Fragments ==
    {<<>>, <<Fragment({Odd})>>, <<Fragment({Odd}), Fragment({Early})>>, <<Fragment({})>>}
Block(first, rows, fragments) == [first |-> first, rows |-> rows, fragments |-> fragments]
FirstColumns ==
    {{Block(1, 1, f), Block(2, 1, g), Block(3, 1, h)} :
        f \in Fragments, g \in Fragments, h \in Fragments}
    \cup {{Block(1, 2, f), Block(3, 1, g)} : f \in Fragments, g \in Fragments}
    \cup {{Block(1, 1, f), Block(2, 2, g)} : f \in Fragments, g \in Fragments}
    \cup {{Block(1, 3, f)} : f \in Fragments}
SecondColumns ==
    {{Block(1, 1, <<>>), Block(2, 2, <<Fragment({Early})>>)}, {Block(1, 3, <<>>)},
     {Block(1, 2, <<Fragment({Odd})>>), Block(3, 1, <<Fragment({Odd})>>)}}
TimetableSamples == {<<c, d>> : c \in FirstColumns, d \in SecondColumns}

Meetings ==
    {Text({Odd}, 1, 1, 2), Text({Early}, 1, 3, 0), Text({Odd, Early}, 1, 3, 3),
     Text({Odd}, 2, 2, 3), Text({}, 1, 4, 4), Text({Early}, 1, 5, 4)}
Entry(meeting, location) == meeting @@ [location |-> location]
Entries ==
    {Entry(m, "north") : m \in Meetings} \cup {Entry(Text({Odd}, 1, 3, 3), "south")}
EntrySequences == {<<e>> : e \in Entries} \cup {<<e, f>> : e \in Entries, f \in Entries}
History(name, period, entries) == [name |-> name, period |-> period, entries |-> entries]
HistorySamples ==
    {<<>>} \cup {<<History("algebra", "period", e)>> : e \in EntrySequences}
    \cup {<<History("algebra", "period", e), History("algebra", "period", <<f>>)>> :
             e \in EntrySequences, f \in Entries}
    \cup {<<History("algebra", "other", <<e>>), History("", "period", <<e>>)>> : e \in Entries}

Form(m) == IF m.to = 0 THEN "legacy"
           ELSE IF m.from = 1 THEN "current"
           ELSE IF m.weekday = 2 THEN "listed"
           ELSE "mixed"
ShownItem(meeting, form) == [name |-> "algebra", meeting |-> meeting, form |-> form]
Items ==
    {ShownItem(m, Form(m)) : m \in Meetings}
    \cup {ShownItem(Text({Odd}, 1, s[1], s[2]), "current") : s \in {<<1, 1>>, <<2, 2>>, <<4, 6>>}}
    \cup {ShownItem(Text({Early}, 1, s[1], s[2]), "legacy") : s \in {<<1, 0>>, <<2, 3>>, <<4, 6>>}}
ItemSamples == {items \in SUBSET Items : Cardinality(items) <= 3}

SelectedRow(name, meetings, locations) ==
    [name |-> name, meetings |-> meetings, locations |-> locations]
MeetingSequences ==
    {<<m>> : m \in Meetings} \cup {<<m, n>> : m \in Meetings, n \in Meetings}
Locations == {<<>>, <<"north">>, <<"north", "south">>, <<"north", "", "north">>}
SelectedSamples ==
    {<<SelectedRow("algebra", m, l)>> : m \in MeetingSequences, l \in Locations}
    \cup {<<SelectedRow("algebra", m, <<"north">>), SelectedRow("algebra", <<n>>, <<"north">>)>> :
             m \in MeetingSequences, n \in Meetings}
    \cup {<<SelectedRow("", <<m>>, <<>>)>> : m \in Meetings}

GradeRow(name, id, key, grade) ==
    [name |-> name, id |-> id, key |-> key, period |-> "", grade |-> grade, score |-> 90]
GradeRowKinds ==
    {GradeRow("", "", "k1", "number"), GradeRow("algebra", "", "k1", "number"),
     GradeRow("algebra", "", "k1", "excellent"), GradeRow("algebra", "", "", "delayed"),
     GradeRow("physics", "", "k2", ""), GradeRow("algebra", "g1", "k1", "good"),
     GradeRow("algebra", "g1", "k2", "number"), GradeRow("algebra", "g1", "", "number")}
GradeSamples == UNION {[1 .. n -> GradeRowKinds] : n \in 0 .. 3}

SelectionRow(id, status, withdrawal, month) ==
    [name |-> "algebra", id |-> id, period |-> "", status |-> status, withdrawal |-> withdrawal,
     state |-> {"lost"}, result |-> {}, at |-> month]
SelectionRowKinds ==
    {SelectionRow("s1", {}, {}, "March 2026"), SelectionRow("s1", {"waiting"}, {}, "March 2026"),
     SelectionRow("", {"selected"}, {"personal", "withdrawn"}, "March 2026"),
     SelectionRow("s2", {}, {"administrator", "withdrawn"}, "none"),
     SelectionRow("s2", {}, {"withdrawn"}, "April 2026"), SelectionRow("", {}, {"long"}, "none"),
     SelectionRow("", {"selected"}, {}, "none")}
SelectionSamples == UNION {[1 .. n -> SelectionRowKinds] : n \in 0 .. 2}

TranscriptRow(cells, year, term, result) ==
    [cells |-> cells, year |-> year, term |-> term, result |-> result, name |-> "algebra",
     score |-> 90]
TranscriptRowKinds ==
    {TranscriptRow(7, 2025, "autumn", <<"number">>), TranscriptRow(6, 2025, "autumn", <<"number">>),
     TranscriptRow(7, 2025, "", <<"selecting", "passed">>),
     TranscriptRow(7, 2025, "other", <<"number">>), TranscriptRow(7, 0, "autumn", <<"number">>),
     TranscriptRow(7, 2024, "spring", <<"applying", "passed">>),
     TranscriptRow(7, 2024, "spring", <<"unselected">>)}
TranscriptSamples == UNION {[1 .. n -> TranscriptRowKinds] : n \in 0 .. 2}

Asked == 2
CatalogSamples ==
    {[shown |-> Catalog("undergraduate", n, size, tells), size |-> Asked] :
        n \in 0 .. 7, size \in 1 .. 3, tells \in SUBSET {"size", "pages"}}
    \cup {[shown |-> Catalog("graduate", n, size, tells), size |-> Asked] :
             n \in 0 .. 7, size \in 1 .. 3,
             tells \in SUBSET {"pages", "total", "linked"}}
=============================================================================
