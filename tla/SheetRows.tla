------------------------------ MODULE SheetRows -------------------------------
(***************************************************************************)
(* The calls of the Google Sheets API that the repositories of the sheets  *)
(* use, as operators on the data rows of a sheet (row i here is row i + 1  *)
(* of the spreadsheet, below the header), and the changes a repository     *)
(* plans.  A row is a record with a key and cells; a blank row has no key. *)
(***************************************************************************)
EXTENDS Lists, SequencesExt

CONSTANT NoKey    (* Key of a row whose cells are all blank.               *)

Keys(sheet) == {sheet[i].key : i \in DOMAIN sheet} \ {NoKey}

(* Two rows with one key: _validate_existing_rows raises "Resultado        *)
(* duplicado" before anything else is done with the sheet.                 *)
Duplicated(sheet) ==
  \E i, j \in DOMAIN sheet : i # j /\ sheet[i].key = sheet[j].key /\ sheet[i].key # NoKey

(* values().batchUpdate: cells are addressed by row NUMBER; writing below  *)
(* the last row extends the sheet, which no plan here does.                *)
Written(sheet, cells) ==
  [i \in DOMAIN sheet |-> IF i \in DOMAIN cells THEN [sheet[i] EXCEPT !.cells = cells[i]]
                          ELSE sheet[i]]

(* values().append with INSERT_ROWS.                                       *)
Appended(sheet, rows) == sheet \o rows

(* batchUpdate with deleteDimension requests, executed one after another.  *)
(* Deleting a row below the data removes an empty grid row.                *)
DeleteRow(sheet, i) == IF i \in DOMAIN sheet THEN RemoveAt(sheet, i) ELSE sheet
Deleted(sheet, order) == FoldLeft(DeleteRow, sheet, order)

(* batchUpdate with moveDimension requests: the row `from' goes before the *)
(* row that was number `to', counting the rows as they were.               *)
MoveRow(sheet, move) ==
  InsertAt(RemoveAt(sheet, move.from),
           IF move.from < move.to THEN move.to - 1 ELSE move.to,
           sheet[move.from])
Moved(sheet, moves) == FoldLeft(MoveRow, sheet, moves)

-----------------------------------------------------------------------------
(* What a repository plans from the sheet it has read, to make the rows    *)
(* with a key of `mine' be those of `wanted', a sequence of rows.          *)
Wanted(wanted, key) == CHOOSE row \in Range(wanted) : row.key = key

Updates(sheet, mine, wanted) ==
  LET changed == {i \in DOMAIN sheet :
                    /\ sheet[i].key \in mine \intersect Keys(wanted)
                    /\ sheet[i].cells # Wanted(wanted, sheet[i].key).cells}
  IN  [i \in changed |-> Wanted(wanted, sheet[i].key).cells]

InsertsAll(sheet, wanted) == wanted                              \* mutant

Inserts(sheet, wanted) == Picked(wanted, {i \in DOMAIN wanted : wanted[i].key \notin Keys(sheet)})

KeepsObsolete(sheet, mine, wanted) == {}                         \* mutant

Obsolete(sheet, mine, wanted) ==
  {i \in DOMAIN sheet : sheet[i].key \in mine \ Keys(wanted)}

DescendingTopDown(rows) == Ascending(rows)                       \* mutant

(* sorted(deletes, reverse=True): bottom up, so that the numbers of the    *)
(* rows still to be deleted stay right.                                    *)
Descending(rows) == InOrderOf(rows, {pair \in rows \X rows : pair[1] > pair[2]})
=============================================================================
