SPECIFICATION Spec
CONSTANTS
    None = None
    card = card
    bank = bank
    food = food
    rent = rent
    Accounts = {card, bank}
    MaxTx = 4
    MaxTags = 0
    MaxImages = 0
    MaxBalance = 10
    MaxImagesPerTransaction = 2
    MaxImageBytesPerTransaction = 2
    MaxImageBytesPerAccount = 3
    MaxImageBytesDatabase = 5
    MaxArchivedImagesPerTransaction = 3
    MaxArchivedImagesDatabase = 4
    Dates <- Morning
    Amounts = {1}
    Names = {}
    Paths <- NoLists
    ImageLists <- NoLists
    ItemLists <- AllLists
    Archives <- ArchivesLinks
    Legacy <- LegacyLinks
INVARIANTS LinksClassified CountedOnce CleanBackupRestores
PROPERTIES OneBankPerCard
