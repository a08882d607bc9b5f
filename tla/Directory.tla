------------------------------ MODULE Directory ------------------------------
(***************************************************************************)
(* Tables and areas, suppliers and their groups, customers, and the lists  *)
(* of the cash book: restauranttable.service, area.service,                *)
(* supplier.service, suppliergroup.service, customers.service and part of  *)
(* cashbook.service.  A request is one step.                               *)
(***************************************************************************)
CONSTANTS
  Areas, Tables, Suppliers, Groups, Customers,
  CashTypes, Parties, \* kinds of entries, and who else gives or takes money
  Labels,      \* names of tables, groups and cash types
  Phones,
  Missing      \* no row, no group, no phone

VARIABLES
  areas,       \* the areas that exist
  tables,      \* Tables -> [name, area], or Missing
  seated,      \* tables with orders
  suppliers,   \* Suppliers -> [group, active], or Missing
  groups,      \* Groups -> [name, active], or Missing
  dealt,       \* suppliers with a receipt or a return
  customers,   \* Customers -> [phone], or Missing
  cashTypes,   \* CashTypes -> [name, active], or Missing
  parties,     \* the other parties that exist
  entered      \* other parties with an entry in the cash book

TableRow == [name : Labels, area : Areas]
SupplierRow == [group : Groups \cup {Missing}, active : BOOLEAN]
LabelRow == [name : Labels, active : BOOLEAN]
CustomerRow == [phone : Phones \cup {Missing}]

ASSUME DirectoryAssumption == Missing \notin TableRow \cup SupplierRow \cup LabelRow \cup CustomerRow

tableVars == <<areas, tables, seated>>
supplierVars == <<suppliers, groups, dealt>>
bookVars == <<cashTypes, parties, entered>>
directoryVars == <<tableVars, supplierVars, customers, bookVars>>

(***************************************************************************)
(* Areas and tables.                                                       *)
(***************************************************************************)
CreateArea(a) ==
  /\ a \notin areas
  /\ areas' = areas \cup {a}
  /\ UNCHANGED <<tables, seated, supplierVars, customers, bookVars>>

\* The unique index on name and area, which updateTable relies on.
Unused(t, name, area) == \A u \in Tables \ {t} : tables[u] # [name |-> name, area |-> area]

CreateTable(t, name, a) ==
  /\ tables[t] = Missing /\ a \in areas /\ Unused(t, name, a)
  /\ tables' = [tables EXCEPT ![t] = [name |-> name, area |-> a]]
  /\ UNCHANGED <<areas, seated, supplierVars, customers, bookVars>>

UpdateTable(t, name) ==
  /\ tables[t] # Missing /\ Unused(t, name, tables[t].area)
  /\ tables' = [tables EXCEPT ![t].name = name]
  /\ UNCHANGED <<areas, seated, supplierVars, customers, bookVars>>

\* Orders keep their table by their foreign key.
DeleteTable(t) ==
  /\ tables[t] # Missing /\ t \notin seated
  /\ tables' = [tables EXCEPT ![t] = Missing]
  /\ UNCHANGED <<areas, seated, supplierVars, customers, bookVars>>

Seat(t) ==
  /\ tables[t] # Missing
  /\ seated' = seated \cup {t}
  /\ UNCHANGED <<areas, tables, supplierVars, customers, bookVars>>

(***************************************************************************)
(* Suppliers and groups.                                                   *)
(***************************************************************************)
GroupKnown(g) == g # Missing => groups[g] # Missing

CreateSupplier(s, g) ==
  /\ suppliers[s] = Missing /\ GroupKnown(g)
  /\ suppliers' = [suppliers EXCEPT ![s] = [group |-> g, active |-> TRUE]]
  /\ UNCHANGED <<groups, dealt, tableVars, customers, bookVars>>

UpdateSupplier(s, g) ==
  /\ suppliers[s] # Missing /\ GroupKnown(g)
  /\ suppliers' = [suppliers EXCEPT ![s].group = g]
  /\ UNCHANGED <<groups, dealt, tableVars, customers, bookVars>>

SetSupplierStatus(s, active) ==
  /\ suppliers[s] # Missing
  /\ suppliers' = [suppliers EXCEPT ![s].active = active]
  /\ UNCHANGED <<groups, dealt, tableVars, customers, bookVars>>

\* A supplier with documents is only switched off.
RemoveSupplier(s) ==
  /\ suppliers[s] # Missing
  /\ suppliers' = IF s \in dealt THEN [suppliers EXCEPT ![s].active = FALSE]
                  ELSE [suppliers EXCEPT ![s] = Missing]
  /\ UNCHANGED <<groups, dealt, tableVars, customers, bookVars>>

Deal(s) ==
  /\ suppliers[s] # Missing
  /\ dealt' = dealt \cup {s}
  /\ UNCHANGED <<suppliers, groups, tableVars, customers, bookVars>>

NameFree(g, name) == \A h \in Groups \ {g} : groups[h] # Missing => groups[h].name # name

CreateGroup(g, name) ==
  /\ groups[g] = Missing /\ NameFree(g, name)
  /\ groups' = [groups EXCEPT ![g] = [name |-> name, active |-> TRUE]]
  /\ UNCHANGED <<suppliers, dealt, tableVars, customers, bookVars>>

UpdateGroup(g, name) ==
  /\ groups[g] # Missing /\ NameFree(g, name)
  /\ groups' = [groups EXCEPT ![g].name = name]
  /\ UNCHANGED <<suppliers, dealt, tableVars, customers, bookVars>>

DeactivateGroup(g) ==
  /\ groups[g] # Missing
  /\ groups' = [groups EXCEPT ![g].active = FALSE]
  /\ UNCHANGED <<suppliers, dealt, tableVars, customers, bookVars>>

Members(g) == {s \in Suppliers : suppliers[s] # Missing /\ suppliers[s].group = g}

\* A group of suppliers without documents goes and lets them free.
RemoveGroup(g) ==
  /\ groups[g] # Missing /\ Members(g) \cap dealt = {}
  /\ groups' = [groups EXCEPT ![g] = Missing]
  /\ suppliers' = [s \in Suppliers |-> IF s \in Members(g) THEN [suppliers[s] EXCEPT !.group = Missing]
                                       ELSE suppliers[s]]
  /\ UNCHANGED <<dealt, tableVars, customers, bookVars>>

(***************************************************************************)
(* Customers.  The unique index counts an empty phone as a phone.          *)
(***************************************************************************)
PhoneFree(k, phone) ==
  phone # Missing => \A l \in Customers \ {k} : customers[l] # Missing => customers[l].phone # phone

CreateCustomer(k, phone) ==
  /\ customers[k] = Missing /\ PhoneFree(k, phone)
  /\ customers' = [customers EXCEPT ![k] = [phone |-> phone]]
  /\ UNCHANGED <<tableVars, supplierVars, bookVars>>

\* A phone cannot be taken away, only replaced.
UpdateCustomer(k, phone) ==
  /\ customers[k] # Missing /\ phone # Missing /\ PhoneFree(k, phone)
  /\ customers' = [customers EXCEPT ![k].phone = phone]
  /\ UNCHANGED <<tableVars, supplierVars, bookVars>>

(***************************************************************************)
(* The lists of the cash book.                                             *)
(***************************************************************************)
TypeNameFree(c, name) == \A d \in CashTypes \ {c} : cashTypes[d] # Missing => cashTypes[d].name # name

CreateCashType(c, name, active) ==
  /\ cashTypes[c] = Missing /\ TypeNameFree(c, name)
  /\ cashTypes' = [cashTypes EXCEPT ![c] = [name |-> name, active |-> active]]
  /\ UNCHANGED <<parties, entered, tableVars, supplierVars, customers>>

UpdateCashType(c, name, active) ==
  /\ cashTypes[c] # Missing /\ TypeNameFree(c, name)
  /\ cashTypes' = [cashTypes EXCEPT ![c] = [name |-> name, active |-> active]]
  /\ UNCHANGED <<parties, entered, tableVars, supplierVars, customers>>

\* A type is switched off whether it is used or not.
RemoveCashType(c) ==
  /\ cashTypes[c] # Missing
  /\ cashTypes' = [cashTypes EXCEPT ![c].active = FALSE]
  /\ UNCHANGED <<parties, entered, tableVars, supplierVars, customers>>

CreateOtherParty(p) ==
  /\ parties' = parties \cup {p} /\ p \notin parties
  /\ UNCHANGED <<cashTypes, entered, tableVars, supplierVars, customers>>

\* Entries keep their party by their foreign key.
RemoveOtherParty(p) ==
  /\ p \in parties \ entered
  /\ parties' = parties \ {p}
  /\ UNCHANGED <<cashTypes, entered, tableVars, supplierVars, customers>>

Enter(p) ==
  /\ p \in parties
  /\ entered' = entered \cup {p}
  /\ UNCHANGED <<cashTypes, parties, tableVars, supplierVars, customers>>

\* Rows point to rows that exist, and no two share what names them.
DirectoryOK ==
  /\ \A t \in Tables : tables[t] # Missing =>
       tables[t].area \in areas /\ Unused(t, tables[t].name, tables[t].area)
  /\ \A s \in Suppliers : suppliers[s] # Missing => GroupKnown(suppliers[s].group)
  /\ \A g \in Groups : groups[g] # Missing => NameFree(g, groups[g].name)
  /\ \A k \in Customers : customers[k] # Missing => PhoneFree(k, customers[k].phone)
  /\ \A c \in CashTypes : cashTypes[c] # Missing => TypeNameFree(c, cashTypes[c].name)
  /\ entered \subseteq parties
  /\ \A t \in seated : tables[t] # Missing
  /\ \A s \in dealt : suppliers[s] # Missing

=============================================================================
