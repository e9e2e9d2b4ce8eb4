---------------------------- MODULE MCStatements ----------------------------
(* Statement files as the five banks print them. *)
EXTENDS StatementLayout, TLC

Text(t) == [text |-> t, n |-> 0]
Day(d) == [text |-> "date", n |-> d]
Money(v) == IF v = 0 THEN Text("zero") ELSE [text |-> "amount", n |-> v]
AccountNo(n) == [text |-> "account_number", n |-> n]

SheetRow(first, cells) == [kind |-> "row", first |-> first, cells |-> cells]
R(cells) == SheetRow(0, cells)
Titled(names) == [i \in DOMAIN names |-> Text(names[i])]
Empty == R(<<>>)
Missing == [kind |-> "none", first |-> 0, cells |-> <<>>]
Broken == [kind |-> "broken", first |-> 0, cells |-> <<>>]
Times(n, row) == [i \in 1..n |-> row]

Entry(d, t, v, dir, ref, bal) ==
    [date |-> d, desc |-> t, amount |-> v, dir |-> dir, ref |-> ref, balance |-> bal]

Rent == Entry(1, "rent", 5, "debit", "u1", 7)
Salary == Entry(2, "salary", 9, "credit", NoText, 16)
\* A text that looks like a heading, and a balance of nothing.
Odd == Entry(2, "account_number", 16, "debit", NoText, 0)
Statements5 == {<<>>, <<Rent>>, <<Odd, Salary>>, <<Rent, Rent>>, <<Salary, Odd>>}

Out(e) == IF e.dir = "debit" THEN Money(e.amount) ELSE Nothing
In(e) == IF e.dir = "credit" THEN Money(e.amount) ELSE Text("zero")

\* Rows above the header, the header, rows that are no entries, the entries, the footer.
Sheet(ext, b, acct, es, lead, above, header, gap, lines, footer) ==
    LET body == Len(above) + 1 + Len(gap)
    IN [ext |-> ext, bank |-> b, account |-> acct, entries |-> es,
        rows |-> above \o <<header>> \o gap \o lines \o footer,
        lead |-> lead, header |-> Len(above) + 1, lines |-> [i \in DOMAIN es |-> body + i],
        end |-> body + Len(es) + 1]
If(gap, rows) == IF gap THEN rows ELSE <<>>

AxisFile(es, gap, acct) ==
    LET line(e) == R(<<Day(e.date), Text(IF e.ref = NoText THEN "-" ELSE e.ref), Text(e.desc),
                       Out(e), In(e), Money(e.balance), Text("1234")>>)
        opening == R(<<Nothing, Nothing, Text("opening_balance"), Nothing, Nothing, Money(3)>>)
        carried == R(<<Day(1), Text("-"), Text("b/f"), Nothing, Nothing, Money(3)>>)
    IN Sheet(".csv", "axis", acct, es, 0,
        <<R(Titled(<<"name_:-_asha">>))>> \o If(acct # None, <<R(<<AccountNo(acct)>>)>>),
        R(Titled(Titles("axis"))), If(gap, <<opening, carried>>), [i \in DOMAIN es |-> line(es[i])],
        <<R(Titled(<<"unless_the_constituent_notifies">>)), R(Titled(<<"legends_:">>))>>)

IDFCFile(es, gap) ==
    LET line(e) == R(<<Day(e.date), Text("upi"), Text(e.desc), Text("others"), Nothing,
                       Money(IF e.dir = "debit" THEN -e.amount ELSE e.amount), Text("inr")>>)
    IN Sheet(".csv", "idfc", None, [i \in DOMAIN es |-> [es[i] EXCEPT !.ref = NoText, !.balance = None]],
        0, If(gap, <<R(Titled(<<"account_statement">>))>>), R(Titled(Titles("idfc"))),
        If(gap, <<R(Titled(<<NoText, NoText, "pending">>))>>), [i \in DOMAIN es |-> line(es[i])], <<>>)

SBIFile(es, gap, acct) ==
    LET line(e) == R(<<Day(e.date), Text(e.desc), Text(e.ref), Out(e), In(e), Money(e.balance)>>)
    IN Sheet(".xlsx", "sbi", acct, es, 0,
        Times(8, R(Titled(<<"asha">>)))
            \o <<R(<<Nothing, IF acct = None THEN Text("-") ELSE AccountNo(acct)>>)>> \o Times(8, Empty),
        R(Titled(Titles("sbi"))),
        If(gap, <<Empty, R(<<Day(1), Text("b/f"), Nothing, Nothing, Nothing, Money(3)>>)>>),
        [i \in DOMAIN es |-> line(es[i])],
        <<R(Titled(<<"statement_summary">>)), R(<<Day(9), Nothing, Nothing, Money(1)>>)>>)

ICICIFile(es, gap, acct) ==
    LET line(e) == SheetRow(1, <<Nothing, Text("1"), Day(e.date), Day(e.date), Text(e.ref),
                                 Text(e.desc), Out(e), In(e), Money(e.balance)>>)
    IN Sheet(".xls", "icici", acct, es, 1,
        Times(3, Missing)
            \o <<R(<<Nothing, Nothing, Text("account"), IF acct = None THEN Nothing ELSE AccountNo(acct)>>)>>
            \o Times(8, Missing),
        SheetRow(1, <<Nothing>> \o Titled(Titles("icici"))),
        If(gap, <<SheetRow(1, Titled(<<NoText, NoText, NoText, NoText, NoText, "b/f">>)),
                  SheetRow(1, <<Nothing, Text("1"), Day(1), Day(1), Nothing, Text("b/f")>>)>>),
        [i \in DOMAIN es |-> line(es[i])], <<SheetRow(1, Titled(<<NoText, "legends_used">>)), line(Rent)>>)

HDFCFile(es, gap, acct) ==
    LET line(e) == R(<<Day(e.date), Text(e.desc), Text(e.ref), Day(e.date), Out(e), In(e),
                       Money(e.balance)>>)
        stars == R(Titled(<<"********", "********">>))
        sheet == Sheet(".xls", "hdfc", acct, es, 0,
        Times(14, Missing)
            \o <<R(Titled(<<NoText, NoText, NoText, NoText>>) \o <<IF acct = None THEN Nothing ELSE AccountNo(acct)>>)>>
            \o Times(5, Missing),
        R(Titled(Titles("hdfc"))),
        <<stars>> \o If(gap, <<Broken, Missing, R(<<Day(1), Text("b/f")>>)>>),
        [i \in DOMAIN es |-> line(es[i])],
        <<stars, R(Titled(<<"statement_summary_:-">>))>>)
    IN [sheet EXCEPT !.end = Len(sheet.rows) + 1]   \* read to the last row

WellFormed ==
    {AxisFile(es, g, a) : es \in Statements5, g \in BOOLEAN, a \in {None, 11}}
        \union {IDFCFile(es, g) : es \in Statements5, g \in BOOLEAN}
        \union {SBIFile(es, g, a) : es \in Statements5, g \in BOOLEAN, a \in {None, 11}}
        \union {ICICIFile(es, g, a) : es \in Statements5, g \in BOOLEAN, a \in {None, 11}}
        \union {HDFCFile(es, g, a) : es \in Statements5, g \in BOOLEAN, a \in {None, 11}}

\* SBI's sheet exported as CSV, ICICI's too; no statement at all; files that are cut
\* or have a row the library cannot read.
Unreadable ==
    LET other(rows, ext) ==
            [IDFCFile(<<>>, FALSE) EXCEPT !.rows = rows, !.ext = ext, !.bank = None,
                                          !.header = Len(rows) + 1]
        broken(f, n) == [f EXCEPT !.rows = Append(SubSeq(@, 1, n), Broken), !.end = n + 2]
        late(f) == [f EXCEPT !.rows = <<Broken>> \o @, !.header = @ + 1, !.end = @ + 1]
        short == Sheet(".csv", "axis", None, <<>>, 1, <<>>, R(Titled(<<"s_no.">> \o Titles("axis"))),
                       <<>>, <<>>, <<R(Titled(<<"end_of_statement">>))>>)
    IN {[SBIFile(<<Rent>>, FALSE, 11) EXCEPT !.ext = ".csv"],
        [ICICIFile(<<Rent>>, FALSE, None) EXCEPT
            !.ext = ".csv", !.rows = SubSeq(@, 13, 14), !.header = 1, !.lines = <<2>>, !.end = 3],
        other(<<Broken, Empty>>, ".csv"), other(<<Empty>>, ".xls"),
        late(HDFCFile(<<>>, FALSE, None)), broken(IDFCFile(<<Rent>>, FALSE), 2),
        broken(AxisFile(<<Rent>>, FALSE, 11), 4), short,
        broken(ICICIFile(<<Rent>>, FALSE, 11), 14)}

\* HDFC's sheet as .xlsx, and a workbook of something else.
NotOfSBI ==
    LET readable(f) == [f EXCEPT !.rows = [j \in DOMAIN @ |-> IF @[j].kind = "row" THEN @[j] ELSE Empty]]
    IN {[readable(HDFCFile(es, FALSE, 11)) EXCEPT !.ext = ".xlsx"] : es \in Statements5}
       \union {[IDFCFile(<<>>, FALSE) EXCEPT !.rows = <<Empty>>, !.ext = ".xlsx", !.bank = None,
                                             !.header = 2]}

\* Headings with nothing after them: in a statement of SBI, and in one of Axis before and
\* after another one.
Headless ==
    LET blank(w) == R(<<Nothing, Text(w)>>)
        with(f, n, row) == [f EXCEPT !.rows[n] = row]
        axis == AxisFile(<<Rent>>, FALSE, 11)
        above(rows) == [axis EXCEPT !.rows = rows \o @, !.header = @ + Len(rows),
                                    !.end = @ + Len(rows), !.lines = <<@[1] + Len(rows)>>]
    IN {with(SBIFile(<<Rent>>, FALSE, 11), 11, blank("ifsc_code_blank")),
        [with(SBIFile(<<Rent>>, FALSE, 11), 9, blank("account_number_blank"))
            EXCEPT !.account = None],
        above(<<R(<<Text("ifsc_code_blank")>>)>>),
        above(<<R(<<Text("ifsc_code_blank"), Text("utib")>>), R(<<Text("ifsc_code_blank")>>)>>)}

MCFiles == WellFormed \union Unreadable \union NotOfSBI \union Headless

=============================================================================
