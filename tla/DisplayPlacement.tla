-------------------------- MODULE DisplayPlacement --------------------------
(***************************************************************************)
(* planning/display_placement.py: where each account of a captured run is     *)
(* shown in the run table, as the inputs group it.  A placement is a path of  *)
(* rungs under the account's type and an order within the last one.           *)
(*                                                                          *)
(* A rung key is a pair of words (the prefix the code concatenates, the name);*)
(* the empty prefix is a key that is a bare class name.  An account handle is  *)
(* the record its string stands for: a base word, the property an expense is   *)
(* scoped to, the vehicle it belongs to with its loan cycle.                   *)
(***************************************************************************)
EXTENDS Ledger

CONSTANTS
    ExpenseCatalog   \* ExpenseCatalog[base]: the catalog row of an expense handle

UNMAPPED_ORDER == 1000000    \* after everything the inputs place

Rung(key, order) == [key |-> key, order |-> order]

\* The handles accounts are minted under.
Plain(base)            == [base |-> base, property |-> None, vehicle |-> None, cycle |-> None]
Scoped(base, property) == [Plain(base) EXCEPT !.property = property]

\* vehicle_handles.py: prefix `of` tells a holding from its loan and the loan's
\* interest; a replacement or a successor still belongs to the root it derives from.
VehicleAccount(of, root, cycle) == [Plain(of) EXCEPT !.vehicle = root, !.cycle = cycle]
RootVehicle(handle)             == IF handle = None THEN None ELSE handle.vehicle
IsVehicleLoan(handle)           == RootVehicle(handle) # None /\ handle.base = "vehicle-loan"
IsVehicleInterest(handle) == RootVehicle(handle) # None /\ handle.base = "vehicle-loan-interest"

Place(s, x) == CHOOSE n \in DOMAIN s : s[n] = x     \* declaration position
-----------------------------------------------------------------------------
(* The coarse groups. *)

TaxPayments ==
    <<"ORDINARY_INCOME_TAX", "CAPITAL_GAINS_TAX", "SECTION_1250_TAX", "COLLECTIBLES_TAX",
      "EMPLOYMENT_TAX", "NIIT", "STATE_INCOME_TAX", "EARLY_WITHDRAWAL_PENALTY">>

ExpenseClasses == <<"LIVING", "PROPERTY", "VEHICLE">>
Categories == <<"EVERYDAY", "DISCRETIONARY", "HEALTH", "MISCELLANEOUS", "RENT",
                "TAXES_INSURANCE", "UTILITIES_SERVICES", "MAINTENANCE_REPAIR", "VEHICLE">>
AssetClassOrder ==
    <<"CASH", "STOCKS", "DIVIDEND_STOCKS", "BONDS", "CDS", "REAL_ESTATE_RESIDENCE",
      "REAL_ESTATE_RENTAL", "REAL_ESTATE_SECOND_HOME", "PRETAX_RETIREMENT", "ROTH",
      "PRECIOUS_METALS", "COLLECTIBLES", "DEPRECIATING">>
IncomeClassOrder ==
    <<"WAGES", "ORDINARY", "PENSION", "RETIREMENT_DISTRIBUTION", "TAXABLE_INTEREST",
      "QUALIFIED_DIVIDENDS", "LONG_TERM_GAINS", "SHORT_TERM_GAINS",
      "RESIDENCE_SECTION_121_GAIN", "SECOND_HOME_GAIN", "RENTAL_SALE_GAIN",
      "SECTION_1250_GAIN", "COLLECTIBLES_GAINS", "SOCIAL_SECURITY", "GROSS_RENTAL",
      "TAX_FREE", "ROTH_EARNINGS", "TAX_EXEMPT_INTEREST">>

\* _ASSET_PANES: the pane an asset class belongs to, in display order.
AssetPanes ==
    << [key |-> "financial", classes |-> {"CASH", "STOCKS", "DIVIDEND_STOCKS", "BONDS",
                                          "CDS", "PRETAX_RETIREMENT", "ROTH"}],
       [key |-> "real-estate", classes |-> {"REAL_ESTATE_RESIDENCE", "REAL_ESTATE_SECOND_HOME",
                                            "REAL_ESTATE_RENTAL"}],
       [key |-> "possessions", classes |-> {"PRECIOUS_METALS", "COLLECTIBLES",
                                            "DEPRECIATING"}] >>

\* _INCOME_SOURCES: the source an income class belongs to, in display order.
IncomeSources ==
    << [key |-> "earned", classes |-> {"WAGES"}],
       [key |-> "pension-withdrawals", classes |-> {"PENSION", "RETIREMENT_DISTRIBUTION",
                                                    "ROTH_EARNINGS"}],
       [key |-> "social-security", classes |-> {"SOCIAL_SECURITY"}],
       [key |-> "other", classes |-> {"ORDINARY"}],
       [key |-> "investment",
        classes |-> {"TAXABLE_INTEREST", "TAX_EXEMPT_INTEREST", "QUALIFIED_DIVIDENDS",
                     "LONG_TERM_GAINS", "SHORT_TERM_GAINS", "RESIDENCE_SECTION_121_GAIN",
                     "SECOND_HOME_GAIN", "RENTAL_SALE_GAIN", "SECTION_1250_GAIN",
                     "COLLECTIBLES_GAINS", "TAX_FREE"}],
       [key |-> "rental", classes |-> {"GROSS_RENTAL"}] >>

GroupOf(groups, class) == CHOOSE n \in DOMAIN groups : class \in groups[n].classes
-----------------------------------------------------------------------------
(* Expenses. *)

ClassRung(class)       == Rung(<<"class", class>>, Place(ExpenseClasses, class))
CategoryRung(category) == Rung(<<"cat", category>>, Place(Categories, category))
ExpensePlacement(class, category, order) ==
    [path |-> <<ClassRung(class), CategoryRung(category)>>, order |-> order]

\* The engine's tax settlements, one rung per tax class: a key a rerun keeps.
TaxExpensePlacement(class) ==
    [path |-> <<Rung(<<"", "taxes-and-fees">>, Len(ExpenseClasses)),
                Rung(<<"tax", class>>, Place(TaxPayments, class))>>, order |-> 0]

OwnedKinds == <<"REAL_ESTATE_RESIDENCE", "REAL_ESTATE_SECOND_HOME", "REAL_ESTATE_RENTAL">>

\* inputs/expenses.py owned_property_handles: residence, second homes, rentals.
OwnedProperties(profile) ==
    FlattenSeq([k \in DOMAIN OwnedKinds |->
        LET owned == SelectSeq(profile.assets, LAMBDA a : a.class = OwnedKinds[k])
        IN  [n \in DOMAIN owned |-> owned[n].handle]])

\* _property_rungs: the rung of each owned property, then of the rented home.
PropertyRung(profile, handle) ==
    LET owned == OwnedProperties(profile)
    IN  CASE handle \in ToSet(owned) -> Rung(<<"property", handle>>, Place(owned, handle))
          [] handle = "rented-home" /\ profile.tenure = "RENT" ->
                Rung(<<"property", handle>>, Len(owned) + 1)
          [] OTHER -> None

CatalogPlacement(row, handle, profile) ==
    LET rung == PropertyRung(profile, handle.property)
    IN  IF row.class = "PROPERTY" /\ rung # None
        THEN [path |-> <<ClassRung("PROPERTY"), rung, CategoryRung(row.category)>>,
              order |-> row.order]
        ELSE ExpensePlacement(row.class, row.category, row.order)

\* The purchase and the payments the vehicle pane generates, ahead of running costs.
GeneratedVehicle == [base \in {"car-purchase", "car-payments"} |->
                        IF base = "car-purchase" THEN 0 ELSE 5]
-----------------------------------------------------------------------------
(* Vehicles: every cycle of a vehicle under one rung. *)

\* _vehicle_rungs: the household's vehicles as the step lists them.
VehicleRung(profile, prefix, root) ==
    LET owned == SelectSeq(profile.assets, LAMBDA a : a.class = "DEPRECIATING")
        all   == [n \in DOMAIN owned |-> owned[n].handle] \o profile.leased
    IN  Rung(<<prefix, root>>, IF root \in ToSet(all) THEN Place(all, root) ELSE UNMAPPED_ORDER)

VehicleLeafOrder(handle) == IF handle.cycle = None THEN 0 ELSE handle.cycle + 1

VehicleInterestPlacement(account, profile) ==
    [path  |-> <<Rung(<<"", account.class>>, UNMAPPED_ORDER), Rung(<<"", "vehicle-interest">>, 0),
                 VehicleRung(profile, "vehicle-interest", RootVehicle(account.handle))>>,
     order |-> VehicleLeafOrder(account.handle)]

VehicleHoldingPlacement(account, profile) ==
    [path  |-> <<Rung(<<"pane", "vehicles">>, Len(AssetPanes) + 1),
                 VehicleRung(profile, "holding-vehicle", RootVehicle(account.handle))>>,
     order |-> VehicleLeafOrder(account.handle)]

VehicleLoanPlacement(account, profile) ==
    [path  |-> <<Rung(<<"", "vehicle-loans">>, 0),
                 VehicleRung(profile, "vehicle-loan", RootVehicle(account.handle))>>,
     order |-> VehicleLeafOrder(account.handle)]
-----------------------------------------------------------------------------
(* Income and assets. *)

\* Mutant of IncomePlacement: no class rung, so the column is the account itself.
IncomeWithoutClassRung(account, profile) ==
    LET n       == GroupOf(IncomeSources, account.class)
        subject == IF account.owner \in ToSet(profile.subjects)
                   THEN <<Rung(<<"subj", account.owner>>, Place(profile.subjects, account.owner))>>
                   ELSE << >>
    IN  [path |-> <<Rung(<<"", IncomeSources[n].key>>, n)>> \o subject, order |-> 0]

\* Source, then the owning subject if the household lists one, then the tax class:
\* the rung that keeps the column when the account's uuid is minted anew.
IncomePlacement(account, profile) ==
    LET n       == GroupOf(IncomeSources, account.class)
        subject == IF account.owner \in ToSet(profile.subjects)
                   THEN <<Rung(<<"subj", account.owner>>, Place(profile.subjects, account.owner))>>
                   ELSE << >>
    IN  [path  |-> <<Rung(<<"", IncomeSources[n].key>>, n)>> \o subject
                   \o <<Rung(<<"inc", account.class>>, Place(IncomeClassOrder, account.class))>>,
         order |-> 0]

AssetPlacement(account, profile) ==
    LET n     == GroupOf(AssetPanes, account.class)
        held  == [k \in DOMAIN profile.assets |-> profile.assets[k].handle]
        order == IF account.handle # None /\ account.handle.base \in ToSet(held)
                 THEN Place(held, account.handle.base) ELSE UNMAPPED_ORDER
        rungs == <<Rung(<<"pane", AssetPanes[n].key>>, n),
                   Rung(<<"", account.class>>, Place(AssetClassOrder, account.class))>>
    IN  IF account.handle = None THEN [path |-> rungs, order |-> order]
        ELSE [path  |-> Append(rungs, Rung(<<"holding", account.handle.base>>, order)),
              order |-> 0]
-----------------------------------------------------------------------------
(* Stamping. *)

\* The placement one account is given, or None: it keeps its engine class.  A
\* catalog that cannot be read fails the expense pass as a whole, and that pass only.
PlacementFor(b, i, profile, catalogRead) ==
    LET a    == b.accounts[i]
        type == EffectiveType(b.accounts, i)
    IN  CASE type = "EXPENSE" /\ ~catalogRead -> None
          [] type = "EXPENSE" /\ a.class \in ToSet(TaxPayments) -> TaxExpensePlacement(a.class)
          [] type = "EXPENSE" /\ IsVehicleInterest(a.handle) ->
                VehicleInterestPlacement(a, profile)
          [] type = "EXPENSE" /\ a.handle # None /\ a.handle.base \in DOMAIN ExpenseCatalog ->
                CatalogPlacement(ExpenseCatalog[a.handle.base], a.handle, profile)
          [] type = "EXPENSE" /\ a.handle # None /\ a.handle.base \in DOMAIN GeneratedVehicle ->
                ExpensePlacement("VEHICLE", "VEHICLE", GeneratedVehicle[a.handle.base])
          [] type = "EXPENSE" /\ a.handle # None /\ a.handle.base = "payment" ->
                ExpensePlacement("LIVING", "MISCELLANEOUS", UNMAPPED_ORDER)
          [] type = "REVENUE" /\ a.class # None -> IncomePlacement(a, profile)
          [] type = "ASSET" /\ a.class # None /\ RootVehicle(a.handle) # None ->
                VehicleHoldingPlacement(a, profile)
          [] type = "ASSET" /\ a.class # None -> AssetPlacement(a, profile)
          [] type = "LIABILITY" /\ IsVehicleLoan(a.handle) -> VehicleLoanPlacement(a, profile)
          [] OTHER -> None

StampDisplayPlacements(b, profile, catalogRead) ==
    [b EXCEPT !.accounts =
        Listed([i \in DOMAIN @ |->
                  [@[i] EXCEPT !.placement = PlacementFor(b, i, profile, catalogRead)]])]
=============================================================================
