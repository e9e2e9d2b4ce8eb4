SPECIFICATION ParserSpec
CONSTANTS
    Files <- MCFiles
    None = None
INVARIANTS StatementWhole BankRecognised AccountOfTheHeader OnlyUnreadableFails
