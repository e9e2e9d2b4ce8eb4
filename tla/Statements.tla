----------------------------- MODULE Statements -----------------------------
(***************************************************************************)
(* Reading a statement file: the bank is told from the rows, the header    *)
(* row of that bank tells the columns, and the rows below it become        *)
(* transactions, are skipped, or end the statement.                        *)
(*                                                                         *)
(* A cell is what its text says: the text itself, a "date" or an "amount"  *)
(* with its number, "zero" for 0 and 0.00, or NoText; an "account_number"  *)
(* or "ifsc_code" is a heading with its value, a "..._blank" one without.  *)
(* Texts are written with _ for a blank.  Columns and rows are counted     *)
(* from zero, as in the code.                                              *)
(***************************************************************************)
EXTENDS Integers, Sequences

CONSTANTS
    Files,      \* [ext, rows, ...]
    None

VARIABLES
    file, step,
    bank,       \* the bank that was recognised
    next,       \* index of the next row
    cols,       \* the columns, once the header row has been read
    account,    \* StatementMeta.AccountNumber
    out         \* ParseResult.Transactions

parserVars == <<file, step, bank, next, cols, account, out>>

\* The text of an empty cell, and what it is a cell of.
NoText == "nothing"
Nothing == [text |-> NoText, n |-> 0]

\* A row of a sheet can be missing, or "broken": reading it panics.  A broken
\* row of a CSV file is a syntax error.
Row == file.rows[next + 1]
CellOf(row, i) == IF i \in 0..Len(row.cells) - 1 THEN row.cells[i + 1] ELSE Nothing
Cell(i) == CellOf(Row, i)

-----------------------------------------------------------------------------
(* The words looked for that the titles of the five banks contain.         *)
Words(title) ==
    CASE title = "tran_date"                -> {"tran_date", "date"}
      [] title = "chqno"                    -> {"chqno", "chq"}
      [] title = "transaction_description"  -> {"transaction_description", "cr"}
      [] title = "ref_no/cheque_no"         -> {"ref_no"}
      [] title = "credit"                   -> {"credit", "cr"}
      [] title = "balance"                  -> {"balance", "bal"}
      [] title = "value_date"               -> {"date"}
      [] title = "transaction_date"         -> {"transaction_date", "date"}
      [] title = "withdrawal_amount(inr)"   -> {"withdrawal_amount", "amount", "dr"}
      [] title = "deposit_amount(inr)"      -> {"deposit_amount", "amount"}
      [] title = "balance(inr)"             -> {"balance", "bal"}
      [] title = "chq./ref.no."             -> {"chq"}
      [] title = "withdrawal_amt."          -> {"withdrawal_amt", "dr"}
      [] title = "deposit_amt."             -> {"deposit_amt"}
      [] title = "closing_balance"          -> {"closing_balance", "balance", "bal"}
      [] title = "legends_used"             -> {"legend"}
      [] title = "ifsc_code_blank"          -> {"ifsc_code"}
      [] OTHER                              -> {title}

Contains(cell, word) == word \in Words(cell.text)
HasWord(row, word) == \E i \in DOMAIN row.cells : Contains(row.cells[i], word)
Has(word) == HasWord(Row, word)

\* The first column that contains the word; -1 if none does.
ColumnOf(row, word) ==
    IF HasWord(row, word)
    THEN CHOOSE i \in 0..Len(row.cells) - 1 :
            /\ Contains(CellOf(row, i), word)
            /\ \A k \in 0..i - 1 : ~Contains(CellOf(row, k), word)
    ELSE -1
findCol(word) == ColumnOf(Row, word)

\* The sheets of two banks start at Row.first: a column that is not found
\* becomes the one before.
Column(word) == IF findCol(word) >= 0 THEN findCol(word) ELSE Row.first - 1

AxisCanParse == Has("particulars") /\ Has("dr") /\ Has("cr") /\ Has("tran_date")
IDFCCanParse == Has("payment_type") /\ Has("transaction_description") /\ Has("amount")
SBICanParse == Has("details") /\ Has("debit") /\ Has("credit") /\ Has("balance")
ICICICanParse == Has("transaction_remarks") /\ Has("withdrawal_amount") /\ Has("deposit_amount")
HDFCCanParse == Has("narration") /\ Has("withdrawal_amt") /\ Has("deposit_amt")

CanParse(b) ==
    CASE b = "axis" -> AxisCanParse [] b = "idfc" -> IDFCCanParse [] b = "sbi" -> SBICanParse
      [] b = "icici" -> ICICICanParse [] b = "hdfc" -> HDFCCanParse

Registered == <<"axis", "idfc", "sbi", "icici", "hdfc">>

\* The parser registered last is asked first.
Detect ==
    LET able == {i \in DOMAIN Registered : CanParse(Registered[i])}
    IN IF able = {} THEN None
       ELSE Registered[CHOOSE i \in able : \A k \in able : k <= i]

ParserInit ==
    /\ file \in Files
    /\ step = "detect" /\ bank = None
    /\ next = 0 /\ cols = None /\ account = None /\ out = <<>>

End(result) == step' = result /\ UNCHANGED <<bank, next, cols, account, out>>
Recognised(b) == bank' = b /\ next' = 0 /\ step' = "open" /\ UNCHANGED <<cols, account, out>>

NotRecognised_GivesUp == End("failed")
\* The rows above the header are passed over.
NotRecognised ==
    next' = next + 1 /\ UNCHANGED <<step, bank, cols, account, out>>

\* DetectFile: an .xlsx file is SBI's.
DetectByName == file.ext = ".xlsx" /\ Recognised("sbi")

DetectXLS ==
    /\ file.ext = ".xls"
    /\ \/ next = Len(file.rows) /\ End("failed")
       \/ /\ next < Len(file.rows)
          /\ \/ Row.kind = "broken" /\ End("crashed")
             \/ Row.kind = "none" /\ NotRecognised
             \/ Row.kind = "row" /\ Detect # None /\ Recognised(Detect)
             \/ Row.kind = "row" /\ Detect = None /\ NotRecognised

DetectCSV ==
    /\ file.ext = ".csv"
    /\ \/ next = Len(file.rows) /\ End("failed")
       \/ /\ next < Len(file.rows)
          /\ \/ Row.kind = "broken" /\ NotRecognised
             \/ Row.kind = "row" /\ Detect # None /\ Recognised(Detect)
             \/ Row.kind = "row" /\ Detect = None /\ NotRecognised

DetectFile ==
    /\ step = "detect" /\ UNCHANGED file
    /\ DetectByName \/ DetectXLS \/ DetectCSV

\* A parser that needs a workbook cannot open a CSV file; the password of SBI's
\* comes from the profile of the user, who may have another name or no birthday.
ParseFile ==
    /\ step = "open" /\ UNCHANGED <<file, bank, next, cols, account, out>>
    /\ \/ bank \in {"icici", "hdfc"} /\ file.ext = ".xls" /\ step' = "parse"
       \/ bank = "sbi" /\ file.ext = ".xlsx" /\ step' \in {"parse", "failed"}
       \/ bank \in {"axis", "idfc"} /\ step' = "parse"
       \/ bank \in {"icici", "hdfc"} /\ file.ext # ".xls" /\ step' = "failed"
       \/ bank = "sbi" /\ file.ext # ".xlsx" /\ step' = "failed"

-----------------------------------------------------------------------------
Skip == next' = next + 1 /\ UNCHANGED <<step, cols, out>>
Header(c) == next' = next + 1 /\ cols' = c /\ UNCHANGED <<step, out>>
Take(t) == next' = next + 1 /\ out' = Append(out, t) /\ UNCHANGED <<step, cols>>
Stop(result) == step' = result /\ UNCHANGED <<next, cols, out>>

Reading(b) == step = "parse" /\ bank = b /\ next < Len(file.rows) /\ UNCHANGED <<file, bank>>

IsEmpty(cell) == cell.text = NoText
IsDate(cell) == cell.text = "date"
\* cleanAmount takes a suffix CR or DR away, and ParseFloat accepts the rest.
IsAmount(cell) == cell.text \in {"zero", "amount", "amount_CR", "amount_DR"}
Filled(cell) == cell.text \notin {NoText, "zero"}

\* The column that counts; the other is not looked at.
Debit == Filled(Cell(cols.debit))
Booked == Cell(IF Debit THEN cols.debit ELSE cols.credit)

Balance ==
    IF cols.balance >= 0 /\ IsAmount(Cell(cols.balance)) THEN Cell(cols.balance).n ELSE None

Transaction(ref) ==
    [date |-> Cell(cols.date).n, desc |-> Cell(cols.desc).text, ref |-> ref, balance |-> Balance,
     amount |-> Booked.n, dir |-> IF Debit THEN "debit" ELSE "credit"]

\* SBI, ICICI and HDFC: a row without an amount, or with one of zero, is skipped.
TakeUnlessZero ==
    IF IsAmount(Booked) /\ Booked.n # 0
    THEN Take(Transaction(Cell(cols.ref).text)) ELSE Skip

AxisCols == [date |-> findCol("tran_date"), desc |-> findCol("particulars"),
    debit |-> findCol("dr"), credit |-> findCol("cr"), balance |-> findCol("bal"),
    ref |-> findCol("chqno")]

extractAxisMeta_Anywhere ==
    account' = IF account = None /\ Has("account_number")
               THEN Cell(findCol("account_number")).n ELSE account
\* The first row above the transactions that says it.
extractAxisMeta ==
    account' = IF cols = None /\ account = None /\ Has("account_number")
               THEN Cell(findCol("account_number")).n ELSE account

\* The first IFSC code of a statement is the first word of what follows its heading in
\* the row; there is to be one.
AxisPanics ==
    LET i == findCol("ifsc_code") IN
    /\ Has("ifsc_code") /\ \A j \in 1..next : ~HasWord(file.rows[j], "ifsc_code")
    /\ Cell(i).text = "ifsc_code_blank" /\ \A k \in i + 1..Len(Row.cells) : IsEmpty(Cell(k))

AxisFooter_BlankToo == ~IsDate(Cell(cols.date))
\* Rows whose first cell is empty never end the statement.
AxisFooter == ~IsEmpty(Cell(0)) /\ ~IsDate(Cell(cols.date))

AxisRow ==
    /\ Reading("axis")
    /\ \/ Row.kind = "broken" /\ Stop("failed") /\ UNCHANGED account
       \/ Row.kind = "row" /\ cols = None /\ AxisPanics /\ Stop("crashed") /\ UNCHANGED account
       \/ /\ Row.kind = "row" /\ cols = None /\ ~AxisPanics /\ extractAxisMeta
          /\ IF Has("tran_date") THEN Header(AxisCols) ELSE Skip
       \/ /\ Row.kind = "row" /\ cols # None /\ extractAxisMeta
          /\ \/ AxisFooter /\ cols.date < Len(Row.cells) /\ Stop("done")
             \/ AxisFooter /\ cols.date >= Len(Row.cells) /\ Stop("crashed")
             \/ IsEmpty(Cell(0)) /\ ~AxisFooter /\ Skip
             \/ /\ ~IsEmpty(Cell(0)) /\ ~AxisFooter
                /\ IF Filled(Booked) /\ IsAmount(Booked)
                   THEN LET ref == Cell(cols.ref).text IN
                        Take(Transaction(IF ref = "-" THEN NoText ELSE ref))
                   ELSE Skip

\* The sign of the amount is the direction; there is no balance and no reference.
IDFCTransaction ==
    LET v == Cell(cols.debit).n IN
    [date |-> Cell(cols.date).n, desc |-> Cell(cols.desc).text, ref |-> NoText, balance |-> None,
     amount |-> IF v < 0 THEN -v ELSE v, dir |-> IF v < 0 THEN "debit" ELSE "credit"]

IDFCCols == [date |-> findCol("date"), desc |-> findCol("transaction_description"),
    debit |-> findCol("amount")]

IDFCRow ==
    /\ Reading("idfc") /\ UNCHANGED account
    /\ \/ Row.kind = "broken" /\ Stop("failed")
       \/ /\ Row.kind = "row" /\ cols = None
          /\ IF Has("payment_type") THEN Header(IDFCCols) ELSE Skip
       \/ /\ Row.kind = "row" /\ cols # None
          /\ IF IsDate(Cell(cols.date)) /\ IsAmount(Cell(cols.debit))
             THEN Take(IDFCTransaction) ELSE Skip

SBICols == [date |-> findCol("date"), desc |-> findCol("details"), debit |-> findCol("debit"),
    credit |-> findCol("credit"), balance |-> findCol("balance"), ref |-> findCol("ref_no")]

\* Of the rows 1 to 17, whether they are above the header or not.
extractSBIMeta ==
    account' = IF /\ account = None /\ next \in 1..17
                  /\ Contains(Cell(1), "account_number")
               THEN Cell(1).n ELSE account

\* The first word after a heading is taken before it is known whether there is one.
SBIPanics == next \in 1..17 /\ Cell(1).text \in {"account_number_blank", "ifsc_code_blank"}

SBIRow ==
    /\ Reading("sbi")
    /\ \/ SBIPanics /\ Stop("crashed") /\ UNCHANGED account
       \/ /\ ~SBIPanics /\ cols = None /\ extractSBIMeta
          /\ IF Has("date") /\ Has("debit") /\ Has("credit") THEN Header(SBICols) ELSE Skip
       \/ /\ ~SBIPanics /\ cols # None /\ extractSBIMeta
          /\ \/ IsEmpty(Cell(cols.date)) /\ Skip
             \/ ~IsEmpty(Cell(cols.date)) /\ ~IsDate(Cell(cols.date)) /\ Stop("done")
             \/ IsDate(Cell(cols.date)) /\ TakeUnlessZero

ICICICols == [date |-> Column("transaction_date"), desc |-> Column("transaction_remarks"),
    debit |-> Column("withdrawal_amount"), credit |-> Column("deposit_amount"),
    balance |-> Column("balance"), ref |-> Column("cheque_number")]

\* Row 3, column 3: the number, the currency and the holder in one cell.
extractICICIMeta ==
    account' = IF cols = None /\ next = 3 /\ Contains(Cell(3), "account_number")
               THEN Cell(3).n ELSE account

ICICIRow ==
    /\ Reading("icici")
    /\ \/ Row.kind = "broken" /\ Stop("crashed") /\ UNCHANGED account
       \/ Row.kind = "none" /\ Skip /\ UNCHANGED account
       \/ /\ Row.kind = "row" /\ cols = None /\ extractICICIMeta
          /\ IF ICICICanParse THEN Header(ICICICols) ELSE Skip
       \/ /\ Row.kind = "row" /\ cols # None /\ UNCHANGED account
          /\ \/ Contains(Cell(1), "legend") /\ Stop("done")
             \/ ~Contains(Cell(1), "legend") /\ ~IsDate(Cell(cols.date)) /\ Skip
             \/ ~Contains(Cell(1), "legend") /\ IsDate(Cell(cols.date)) /\ TakeUnlessZero

HDFCCols == [date |-> Column("date"), desc |-> Column("narration"),
    debit |-> Column("withdrawal_amt"), credit |-> Column("deposit_amt"),
    balance |-> Column("closing_balance"), ref |-> Column("chq")]

\* Row 14, column 4.
extractHDFCField ==
    account' = IF cols = None /\ next = 14 /\ Contains(Cell(4), "account_number")
               THEN Cell(4).n ELSE account

\* Nothing but the last row ends the statement; a row that panics is none.
HDFCRow ==
    /\ Reading("hdfc")
    /\ \/ Row.kind # "row" /\ Skip /\ UNCHANGED account
       \/ /\ Row.kind = "row" /\ cols = None /\ extractHDFCField
          /\ IF HDFCCanParse THEN Header(HDFCCols) ELSE Skip
       \/ /\ Row.kind = "row" /\ cols # None /\ UNCHANGED account
          /\ IF IsDate(Cell(cols.date)) THEN TakeUnlessZero ELSE Skip

\* A statement without transactions is a statement.
LastRow_EmptyFails ==
    /\ step = "parse" /\ next = Len(file.rows) /\ step' = IF out = <<>> THEN "failed" ELSE "done"
    /\ UNCHANGED <<file, bank, next, cols, account, out>>
LastRow ==
    /\ step = "parse" /\ next = Len(file.rows) /\ step' = "done"
    /\ UNCHANGED <<file, bank, next, cols, account, out>>

ParserSettled == step \in {"done", "failed", "crashed"} /\ UNCHANGED parserVars

ParserNext ==
    \/ DetectFile \/ ParseFile
    \/ AxisRow \/ IDFCRow \/ SBIRow \/ ICICIRow \/ HDFCRow \/ LastRow
    \/ ParserSettled

ParserSpec == ParserInit /\ [][ParserNext]_parserVars

-----------------------------------------------------------------------------
(* An .xlsx file of another bank is read as one of SBI that has no header. *)
TakenForSBI == file.ext = ".xlsx" /\ file.bank # "sbi"

(* What was read of a well-formed statement are its entries, each once and *)
(* in their order, with side, amount and balance as printed: blank rows,   *)
(* separators, headings and footers neither become transactions nor hide   *)
(* the rows below them.  Of an .xlsx that is not SBI's nothing is read,    *)
(* and that is no error (Parse, ParsePath, parseSBIRows).                  *)
StatementWhole == step = "done" => out = IF TakenForSBI THEN <<>> ELSE file.entries

(* A statement is recognised as one of the bank that printed it, whatever  *)
(* precedes its header, except that every .xlsx is taken for SBI's; only a *)
(* row that panics prevents it (DetectFile).                               *)
BankRecognised ==
    step \notin {"detect", "crashed"} =>
        bank = IF file.ext = ".xlsx" THEN "sbi" ELSE file.bank

(* A statement that can be read is not given up: nothing but the want of   *)
(* a header, a file of another kind than the bank's parser opens (SBI's as *)
(* CSV among them), the password of SBI's, a row that the library cannot   *)
(* read (HDFC's reader passes even those), an Axis footer that ends before *)
(* the date column, or a heading of Axis or SBI with nothing after it      *)
(* stops a parser (DetectFile, parseFile, Parse, ParsePath,                *)
(* extractAxisMeta, extractSBIMeta).                                       *)
CannotRead ==
    \/ file.bank = None
    \/ bank = "sbi" /\ next = 0
    \/ bank \in {"icici", "hdfc"} /\ file.ext # ".xls"
    \/ /\ next < Len(file.rows) /\ Row.kind = "broken"
       /\ bank \in {"axis", "idfc", "icici"} \/ (bank = None /\ file.ext = ".xls")
    \/ bank = "axis" /\ cols # None /\ Len(Row.cells) <= cols.date
    \/ bank = "axis" /\ cols = None /\ next < Len(file.rows) /\ AxisPanics
    \/ bank = "sbi" /\ next < Len(file.rows) /\ SBIPanics
OnlyUnreadableFails == step \in {"failed", "crashed"} => CannotRead

(* The account number comes from above the transactions, never from a      *)
(* description below that looks like one; imports find the account by it.  *)
(* An .xlsx that is not SBI's has none (extractAxisMeta and its kind).     *)
AccountOfTheHeader ==
    step = "done" => account = IF TakenForSBI THEN None ELSE file.account

=============================================================================
