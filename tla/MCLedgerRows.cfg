SPECIFICATION Spec
CONSTANTS
    None = None
    card = card
    bank = bank
    food = food
    rent = rent
    Accounts = {card, bank}
    MaxTx = 4
    MaxTags = 5
    MaxImages = 3
    MaxBalance = 3
    MaxImagesPerTransaction = 2
    MaxImageBytesPerTransaction = 2
    MaxImageBytesPerAccount = 3
    MaxImageBytesDatabase = 5
    MaxArchivedImagesPerTransaction = 3
    MaxArchivedImagesDatabase = 4
    Dates <- OneDay
    Amounts <- Signed
    Names = {food, rent}
    Paths <- FoodAndRent
    ImageLists <- Lists
    ItemLists = {}
    Archives <- ArchivesRows
    Legacy <- LegacyRows
INVARIANTS BalancesExact OneOrdinaryRoot CleanBackupRestores
PROPERTIES OverageNeverGrows
