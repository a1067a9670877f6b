--------------------------- MODULE MCProfitImport ---------------------------
(***************************************************************************)
(* An instance of ProfitImport for TLC: a sheet of shipping fees that      *)
(* names a parcel twice, a zip of four files that meet each other and the  *)
(* tables of the first, an account workbook without a telling name, and    *)
(* files that cannot be read.                                              *)
(***************************************************************************)
EXTENDS ProfitImport

CONSTANTS fees, bundle, account, orders, broken, r1, r2

Sheet(title, heading, words, rows) ==
  [title |-> title, heading |-> heading, words |-> words, rows |-> rows]
Entry(words, sheets) == [path |-> "sheet", words |-> words, sheets |-> sheets]
Uploaded(ext, content, hint, entries) ==
  [ext |-> ext, content |-> content, shop |-> "s", hint |-> hint, entries |-> entries]

Parcel(package, amount, ok) ==
  [ package |-> package, tracking |-> "", type |-> "out", remark |-> "", amount |-> amount,
    ok |-> ok, blank |-> FALSE ]
Order(po, sku, amount) ==
  [po |-> po, sku |-> sku, amount |-> amount, ok |-> TRUE, blank |-> FALSE]
Blank == [Order("", "", 0) EXCEPT !.blank = TRUE]
Fine(no, amount) == [no |-> no, amount |-> amount, ok |-> TRUE, blank |-> FALSE]
Flow(id, amount) == [flow |-> id, amount |-> amount, ok |-> TRUE, blank |-> FALSE]
Bill(bill, amount) == [bill |-> bill, amount |-> amount, ok |-> TRUE, blank |-> FALSE]

Fees(amounts) == Sheet("Sheet1", "shipping", {}, amounts)

\* A parcel twice, a row that names none, and a number that is no number.
FeesPosted ==
  Uploaded("xlsx", "workbook", "",
    << Entry({"label", "posted"},
         << Fees(<<Parcel("p1", 1, TRUE), Parcel("", 9, TRUE), Parcel("p1", 2, TRUE)>>) >>) >>)

\* Recognised by its headers, by its sheets, and by names; one entry is no
\* sheet.
BundleOfFiles ==
  Uploaded("", "archive", "",
    << [Entry({}, << >>) EXCEPT !.path = "macosx"],
       Entry({}, << Sheet("Sheet1", "orders", {"po", "item code"},
         << Order("o1", "a", 5), Order("", "b", 0), Blank, Order("o2", "", 6),
            Order("", "c", 0), Order("o1", "c", 7) >>) >>),
       Entry({"label", "pending"}, << Fees(<<Parcel("p1", 3, TRUE)>>) >>),
       Entry({"third"}, << Sheet("Sheet1", "return", {}, <<Bill("r1", 1), Bill("", 8)>>) >>),
       Entry({"merchant"}, << Sheet("Sheet1", "return", {}, <<Bill("r1", 4)>>) >>) >>)

\* Fines in two sheets, flows, and a sheet nobody knows.
AccountBook ==
  Uploaded("xlsx", "workbook", "",
    << Entry({}, << Sheet("violations1", "violation", {}, <<Fine("v1", 1), Fine("v2", 2)>>),
                    Sheet("violations2", "violation", {}, <<Fine("v2", 3)>>),
                    Sheet("chargebacks", "chargeback", {}, <<Fine("c1", 1)>>),
                    Sheet("platform", "platform", {}, << >>),
                    Sheet("settled", "flow", {}, <<Flow("f1", 5)>>),
                    Sheet("disposals", "disposal", {}, << >>),
                    Sheet("notes", "", {}, << >>) >>) >>)

\* Read for what the hint says, with another block of an order.
OrdersHinted ==
  Uploaded("zip", "archive", "parent",
    << Entry({"unsettle"}, << Sheet("Sheet1", "orders", {}, <<Order("o1", "b", 8)>>) >>),
       Entry({}, << Sheet("Sheet1", "orders", {}, <<Order("o1", "", 9), Order("", "d", 0)>>) >>) >>)

\* The second file begins with a row that belongs to no order.
BrokenZip ==
  Uploaded("zip", "archive", "",
    << Entry({"label", "posted"}, << Fees(<<Parcel("p9", 1, TRUE)>>) >>),
       Entry({"unsettle"}, << Sheet("Sheet1", "orders", {}, <<Order("", "x", 0)>>) >>) >>)

FiveUploads ==
  (fees :> FeesPosted) @@ (bundle :> BundleOfFiles) @@ (account :> AccountBook)
    @@ (orders :> OrdersHinted) @@ (broken :> BrokenZip)

=============================================================================
