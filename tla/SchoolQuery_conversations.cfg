SPECIFICATION QuerySpec
CONSTANTS
    MaxRequests = 10
    MaxPageSize = 500
    GraduateWeeks = 23
    ScheduleWeeks = 30
    Operations <- OperationSamples
    Periods <- PeriodSamples
    Timetables <- TimetableSamples
    Sections = 3
    Histories <- HistorySamples
    ItemSets <- ItemSamples
    Selected <- SelectedSamples
    GradeRows <- GradeSamples
    SelectionRows <- SelectionSamples
    TranscriptRows <- TranscriptSamples
    Catalogs <- CatalogSamples
    MaxCatalogPage = 6
INVARIANTS   ExpiredStaysExpired QueryComplete TimetableKept RecordsKept CatalogReadOnce
CHECK_DEADLOCK FALSE
