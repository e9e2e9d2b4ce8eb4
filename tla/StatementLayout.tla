-------------------------- MODULE StatementLayout ---------------------------
(***************************************************************************)
(* What a printed statement looks like, bank by bank: which rows are its   *)
(* header, its entries and its footer, and where they say what they say.   *)
(* The parsers never see this; the files that the theorems about them      *)
(* speak of are laid out so.                                               *)
(*                                                                         *)
(* Rows are counted from one here.  The header row is file.header, after   *)
(* the last row if there is none; the columns of the statement start at    *)
(* file.lead, counted from zero; entry i is printed in row file.lines[i];  *)
(* file.end is the first row of the footer, or the one after the last row. *)
(***************************************************************************)
EXTENDS Statements

Banks == {"axis", "idfc", "sbi", "icici", "hdfc"}

CellValues == [text : STRING, n : Int]
RowValues == [kind : {"row", "none", "broken"}, first : Nat, cells : Seq(CellValues)]
EntryValues ==
    [date : Int, desc : STRING, amount : Nat \ {0}, dir : {"debit", "credit"},
     ref : STRING, balance : Int \union {None}]

\* The row of titles, as the five banks print it.
Titles(b) ==
    CASE b = "axis" ->
            <<"tran_date", "chqno", "particulars", "dr", "cr", "bal", "sol">>
      [] b = "idfc" ->
            <<"date", "payment_type", "transaction_description", "category", "sub-category",
              "amount", "currency">>
      [] b = "sbi" ->
            <<"date", "details", "ref_no/cheque_no", "debit", "credit", "balance">>
      [] b = "icici" ->
            <<"s_no.", "value_date", "transaction_date", "cheque_number",
              "transaction_remarks", "withdrawal_amount(inr)", "deposit_amount(inr)",
              "balance(inr)">>
      [] b = "hdfc" ->
            <<"date", "narration", "chq./ref.no.", "value_dt", "withdrawal_amt.",
              "deposit_amt.", "closing_balance">>

\* What stands under which of them.
ColumnsFrom(b, c) ==
    CASE b = "axis" -> [date |-> c, desc |-> c + 2, debit |-> c + 3, credit |-> c + 4,
                        balance |-> c + 5, ref |-> c + 1]
      [] b = "idfc" -> [date |-> c, desc |-> c + 2, debit |-> c + 5]
      [] b = "sbi" -> [date |-> c, desc |-> c + 1, debit |-> c + 3, credit |-> c + 4,
                       balance |-> c + 5, ref |-> c + 2]
      [] b = "icici" -> [date |-> c + 2, desc |-> c + 4, debit |-> c + 5, credit |-> c + 6,
                         balance |-> c + 7, ref |-> c + 3]
      [] b = "hdfc" -> [date |-> c, desc |-> c + 1, debit |-> c + 4, credit |-> c + 5,
                        balance |-> c + 6, ref |-> c + 2]
PrintedColumns(f) == ColumnsFrom(f.bank, f.lead)

-----------------------------------------------------------------------------
(* Above the statement.                                                    *)

\* No row above the header has a title that only one bank prints.
OwnTitles == {"tran_date", "payment_type", "debit", "transaction_remarks", "narration"}
Untitled(row) == \A w \in OwnTitles : ~HasWord(row, w)

\* Cells beside the titles say nothing that a parser looks for.
LookedFor ==
    OwnTitles \union
    {"date", "details", "credit", "balance", "ref_no", "particulars", "dr", "cr", "bal", "chqno",
     "transaction_description", "amount", "transaction_date", "withdrawal_amount",
     "deposit_amount", "cheque_number", "withdrawal_amt", "deposit_amt", "closing_balance",
     "chq", "account_number"}
Plain(cell) == \A w \in LookedFor : ~Contains(cell, w)

TitleRow(f) ==
    LET row == f.rows[f.header]
        titles == Titles(f.bank)
    IN /\ row.kind = "row"
       /\ Len(row.cells) >= f.lead + Len(titles)
       /\ \A i \in DOMAIN row.cells :
             IF i - f.lead \in 1 .. Len(titles)
             THEN row.cells[i].text = titles[i - f.lead] ELSE Plain(row.cells[i])

\* Where a row would say the account number.
AccountCell(f, j) ==
    CASE f.bank = "axis" -> CellOf(f.rows[j], ColumnOf(f.rows[j], "account_number"))
      [] f.bank = "sbi" /\ j \in 2..18 -> CellOf(f.rows[j], 1)
      [] f.bank = "icici" /\ j = 4 -> CellOf(f.rows[j], 3)
      [] f.bank = "hdfc" /\ j = 15 -> CellOf(f.rows[j], 4)
      [] OTHER -> Nothing
SaysAccount(f, j) ==
    IF f.bank = "axis" THEN HasWord(f.rows[j], "account_number")
    ELSE Contains(AccountCell(f, j), "account_number")

\* The first of the rows 1..k that says an account number says this one.
AccountIn(f, k, number) ==
    \/ number = None /\ \A j \in 1..k : ~SaysAccount(f, j)
    \/ \E j \in 1..k :
          /\ SaysAccount(f, j) /\ number = AccountCell(f, j).n
          /\ \A i \in 1..j - 1 : ~SaysAccount(f, i)

-----------------------------------------------------------------------------
(* The statement.                                                          *)

Vacant(cell) == cell.text = NoText \/ (cell.text = "zero" /\ cell.n = 0)
Amount(cell, n) == cell.text \in {"amount", "amount_CR", "amount_DR"} /\ cell.n = n

\* An amount stands in the column of its side; if that is credit, nothing in debit.
AmountPrinted(f, row, e) ==
    LET debit == CellOf(row, PrintedColumns(f).debit)
        credit == CellOf(row, PrintedColumns(f).credit)
    IN IF e.dir = "debit" THEN Amount(debit, e.amount)
       ELSE Vacant(debit) /\ Amount(credit, e.amount)

BalancePrinted(f, row, e) ==
    LET cell == CellOf(row, PrintedColumns(f).balance)
    IN IF e.balance = None THEN ~IsAmount(cell) ELSE IsAmount(cell) /\ cell.n = e.balance

\* Axis prints a dash for no reference.
RefPrinted(f, row, e) ==
    LET text == CellOf(row, PrintedColumns(f).ref).text
    IN IF f.bank = "axis" THEN e.ref # "-" /\ (text = e.ref \/ (e.ref = NoText /\ text = "-"))
       ELSE text = e.ref

\* IDFC prints one signed amount, no balance and no reference.
SignedPrinted(f, row, e) ==
    /\ Amount(CellOf(row, PrintedColumns(f).debit), IF e.dir = "debit" THEN -e.amount ELSE e.amount)
    /\ e.ref = NoText /\ e.balance = None

Line(f, row, e) ==
    LET date == CellOf(row, PrintedColumns(f).date)
    IN /\ row.kind = "row"
       /\ date.text = "date" /\ date.n = e.date
       /\ CellOf(row, PrintedColumns(f).desc).text = e.desc
       /\ IF f.bank = "idfc" THEN SignedPrinted(f, row, e)
          ELSE AmountPrinted(f, row, e) /\ BalancePrinted(f, row, e) /\ RefPrinted(f, row, e)
       /\ f.bank = "axis" => CellOf(row, 0).text # NoText
       /\ f.bank = "icici" => ~Contains(CellOf(row, 1), "legend")

\* A row without an amount on either side, dated or not.
Unbooked(f, row) ==
    /\ CellOf(row, PrintedColumns(f).date).text = "date"
    /\ Vacant(CellOf(row, PrintedColumns(f).debit)) /\ Vacant(CellOf(row, PrintedColumns(f).credit))
Undated(f, row) == CellOf(row, PrintedColumns(f).date).text # "date"

\* What stands between the entries: separators, headings, carried balances.
Filler(f, row) ==
    \/ row.kind # "row"
    \/ f.bank = "axis" /\ (CellOf(row, 0).text = NoText \/ Unbooked(f, row))
    \/ f.bank = "idfc" /\ (Undated(f, row) \/ ~IsAmount(CellOf(row, PrintedColumns(f).debit)))
    \/ f.bank = "sbi" /\ (CellOf(row, PrintedColumns(f).date).text = NoText \/ Unbooked(f, row))
    \/ /\ f.bank = "icici" /\ ~Contains(CellOf(row, 1), "legend")
       /\ Undated(f, row) \/ Unbooked(f, row)
    \/ f.bank = "hdfc" /\ (Undated(f, row) \/ Unbooked(f, row))

\* What ends it; statements of IDFC and HDFC are read to their last row.
Footer(f, row) ==
    /\ row.kind = "row"
    /\ \/ f.bank = "axis" /\ CellOf(row, 0).text # NoText /\ Undated(f, row)
       \/ f.bank = "sbi" /\ Undated(f, row) /\ CellOf(row, PrintedColumns(f).date).text # NoText
       \/ f.bank = "icici" /\ Contains(CellOf(row, 1), "legend")

Body(f) ==
    /\ f.end \in f.header + 1 .. Len(f.rows) + 1
    /\ f.end <= Len(f.rows) => Footer(f, f.rows[f.end])
    /\ DOMAIN f.lines = DOMAIN f.entries
    /\ \A i \in DOMAIN f.lines :
          /\ f.lines[i] \in f.header + 1 .. f.end - 1
          /\ Line(f, f.rows[f.lines[i]], f.entries[i])
          /\ \A k \in 1..i - 1 : f.lines[k] < f.lines[i]
    /\ \A j \in f.header + 1 .. f.end - 1 :
          (\E i \in DOMAIN f.lines : f.lines[i] = j) \/ Filler(f, f.rows[j])

\* An .xlsx that SBI has not printed has nowhere the titles of SBI's columns, and no
\* account number where SBI prints its own.
Foreign(f) ==
    \A j \in DOMAIN f.rows :
        /\ ~(HasWord(f.rows[j], "debit") /\ HasWord(f.rows[j], "credit"))
        /\ j \in 2..18 => ~Contains(CellOf(f.rows[j], 1), "account_number")

\* Rows that cannot be read have no cells.  SBI's header is not before the seventeen
\* rows that are searched for its account number.
Printed(f) ==
    /\ f.rows \in Seq(RowValues) /\ f.entries \in Seq(EntryValues) /\ f.lines \in Seq(Nat)
    /\ f.lead \in Nat /\ f.header \in Nat \ {0}
    /\ \A j \in DOMAIN f.rows : f.rows[j].kind # "row" => f.rows[j].cells = <<>>
    /\ \A j \in 1..f.header - 1 : Untitled(f.rows[j])
    /\ f.ext = ".xlsx" => f.bank = "sbi" \/ Foreign(f)
    /\ \/ f.bank = None /\ f.header = Len(f.rows) + 1
       \/ /\ f.bank \in Banks /\ f.header <= Len(f.rows)
          /\ f.bank = "sbi" => f.header >= 18
          /\ TitleRow(f) /\ AccountIn(f, f.header - 1, f.account) /\ Body(f)

\* The files are statements as the banks print them; None is none of the values it
\* stands in for.
ASSUME FilesAssumption ==
    /\ None \notin Int \union Banks
    /\ \A f \in Files : Printed(f) /\ (f.bank # None => None # PrintedColumns(f))

=============================================================================
