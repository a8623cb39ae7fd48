SPECIFICATION FairSpec

CONSTANTS
    Workers = {w1, w2}
    NoOne = NoOne
    cash = cash
    expense = expense
    nowhere = nowhere
    k1 = k1
    k2 = k2
    k3 = k3
    Accounts <- MCAccounts
    UnknownAccounts = {nowhere}
    AccountType <- MCAccountType
    AllowNegative <- MCAllowNegative
    OpeningBalance <- MCOpeningBalance
    Keys = {k1, k2, k3}
    Requests <- MCPayments

INVARIANTS
    TypeOK
    NoOverdraft
    AtMostOncePerKey
    BooksAgree
    AnswersTruthful
    SessionInv

PROPERTIES
    ImplementsBook
    EveryRequestAnswered
