----------------------------- MODULE FormFields -----------------------------
(***************************************************************************)
(* The fields of the admin console's forms: what the markup lets a user    *)
(* enter, what the form takes over from the record it opens, and what it   *)
(* puts into the request.  RecordForms gives the forms their behaviour.    *)
(***************************************************************************)
EXTENDS FormValues

-----------------------------------------------------------------------------
(* Vehicles: the tabs of VehicleModal.                                       *)

VehicleGeneral ==
    Join(All({"licensePlate"}, Required),
    Join(All({"unitNumber", "vin", "make", "model"}, Text),
    Join(All({"year"}, Positive),
         All({"connectorType", "vehicleStatus", "priorityTier"}, Choice))))

VehicleBattery ==
    All({"batteryCapacity", "usableBattery", "maxAcPower", "maxDcPower"}, Positive)

VehicleDepot ==
    All({"defaultDepotSite", "assignedBayId", "assignedDriverName", "costCenterCode"}, Text)

VehicleTelematics ==
    Join(All({"telematicsProvider", "pncCertStatus"}, Choice),
         All({"telematicsVehicleId", "autochargeMac", "pncCertSerial"}, Text))

VehicleInputs ==
    Join(VehicleGeneral, Join(VehicleBattery, Join(VehicleDepot, VehicleTelematics)))

VehicleLoads ==
    Over(All(DOMAIN VehicleInputs, Plain),
         {"year", "connectorType", "vehicleStatus", "priorityTier", "telematicsProvider",
          "defaultDepotSite", "pncCertStatus"} \cup DOMAIN VehicleBattery, Default)

VehicleSends ==
    Over(Over(All(DOMAIN VehicleInputs, Trimmed),
              {"priorityTier"} \cup DOMAIN VehicleBattery, OrDefault),
         {"licensePlate", "connectorType", "vehicleStatus", "telematicsProvider",
          "pncCertStatus"}, AsIs)

VehicleForm == Form(VehicleInputs, VehicleLoads, VehicleSends, "opening", "merge")

-----------------------------------------------------------------------------
(* Depot bays: DepotBayModal.                                                *)

BayInputs ==
    Join(All({"bayNumber", "chargePointId"}, Required),
    Join(All({"connectorId", "maxBayPower"}, Positive),
    Join(All({"bayType", "bayStatus"}, Choice),
         All({"assignedVehicle"}, OptionalChoice))))

BayLoads ==
    Over(All(DOMAIN BayInputs, Default), {"bayNumber", "assignedVehicle"}, Plain)

BaySends == Over(All(DOMAIN BayInputs, AsIs), {"assignedVehicle"}, OrNull)

BayForm == Form(BayInputs, BayLoads, BaySends, "opening", "merge")

-----------------------------------------------------------------------------
(* RFID tokens: TokenIssueModal, TokenReplaceModal, TokenBlockModal.  The     *)
(* update model of the API has no uid and no type.                           *)

TokenInputs ==
    Join(All({"uid"}, Locked),
    Join(All({"tokenType"}, Choice),
    Join(All({"groupId"}, OptionalChoice),
         All({"cardNumber", "driverName", "driverEmail", "driverPhone", "tokenLabel",
              "validFrom", "validUntil"}, Text))))

TokenLoads == Over(All(DOMAIN TokenInputs, Plain), {"tokenType"}, Default)

TokenSends ==
    Over(Over(All(DOMAIN TokenInputs, Trimmed), {"uid", "tokenType"}, Dropped),
         {"validFrom", "validUntil"}, Instant)

TokenForm == Form(TokenInputs, TokenLoads, TokenSends, "opening", "merge")

\* The new token takes over what the request omits from the old one.
ReplaceInputs == Join(All({"newUid"}, Required), All({"newDriver", "newLabel"}, Text))
ReplaceSends == Join(All({"newUid"}, AsIs), All({"newDriver", "newLabel"}, Trimmed))

ReplaceLoads == Over(All(DOMAIN ReplaceInputs, Plain), {"newLabel"}, Default)

ReplaceForm == Form(ReplaceInputs, ReplaceLoads, ReplaceSends, "once", "merge")

BlockForm ==
    Form(All({"blockReason"}, Required), All({"blockReason"}, Never),
         All({"blockReason"}, Trimmed), "once", "merge")

-----------------------------------------------------------------------------
(* Token groups: GroupModal.                                                 *)

GroupInputs ==
    Join(All({"groupName"}, Required),
         All({"billingEmail", "billingReference", "contactName", "contactPhone",
              "billingAddress", "notes"}, Text))

GroupLoads == All(DOMAIN GroupInputs, Plain)
GroupSends == Over(All(DOMAIN GroupInputs, Trimmed), {"groupName"}, AsIs)

GroupForm == Form(GroupInputs, GroupLoads, GroupSends, "opening", "merge")

-----------------------------------------------------------------------------
(* Tariffs, tiers and the cost basis: TariffModelModal, PricingTierModal,     *)
(* CostBasisCard.                                                            *)

TariffRates == {"energyRate", "timeRate", "idleRate", "flatFee"}

TariffInputs ==
    Join(All({"tariffId"}, Locked),
    Join(All({"currency"}, Choice),
    Join(All({"tariffName"}, Required),
         All(TariffRates, NonNegative))))

TariffLoads ==
    Over(Over(All(DOMAIN TariffInputs, Plain), {"currency"}, Default), TariffRates, Nullish)

TariffSends == Over(All(DOMAIN TariffInputs, AsIs), TariffRates, OrZero)

\* The page's update sends neither the id nor the currency.
TariffUpdates == Over(TariffSends, {"tariffId", "currency"}, Dropped)

TariffForm == Form(TariffInputs, TariffLoads, TariffUpdates, "opening", "merge")

TierInputs ==
    Join(All({"tierId"}, Locked),
    Join(All({"tierName"}, Required),
    Join(All({"margin"}, NonNegative),
         All({"description"}, Text))))

TierLoads == Over(All(DOMAIN TierInputs, Plain), {"margin"}, Nullish)

TierSends ==
    Over(Over(All(DOMAIN TierInputs, AsIs), {"margin"}, OrZero), {"description"}, Trimmed)

TierUpdates == Over(TierSends, {"tierId"}, Dropped)

TierForm == Form(TierInputs, TierLoads, TierUpdates, "opening", "merge")

\* Every component has a value; an emptied input counts as 0.
CostInputs == All({"costComponent"}, {"blank"} \cup NonNegative)

CostForm ==
    Form(CostInputs, All({"costComponent"}, Same), All({"costComponent"}, OrZero), "data", "merge")

-----------------------------------------------------------------------------
(* A site's guardrails: PeakShavingGuardrails.  The request carries the id as *)
(* the site's name, and the API's upsert replaces the row: what the request   *)
(* does not carry gets its default.                                          *)

GuardrailInputs ==
    Join(All({"gridLimit"}, Positive),
    Join(All({"bufferPct", "strategy"}, Choice),
         All({"siteName", "siteAddress", "siteConfig"}, Locked)))

GuardrailLoads ==
    Join(All({"gridLimit", "strategy"}, IfSet),
         All({"bufferPct", "siteName", "siteAddress", "siteConfig"}, Never))

GuardrailSends ==
    Join(All({"gridLimit"}, OrDefault),
    Join(All({"strategy", "bufferPct", "siteName"}, AsIs),
         All({"siteAddress", "siteConfig"}, Dropped)))

GuardrailForm == Form(GuardrailInputs, GuardrailLoads, GuardrailSends, "data", "replace")

-----------------------------------------------------------------------------
(* The override of a site and the telematics of a vehicle: EmsOverrideModal,  *)
(* VehicleTelematicsDrawer.                                                  *)

OverrideForm ==
    Form(Join(All({"overrideKw"}, NonNegative), All({"duration"}, Choice)),
         Join(All({"overrideKw"}, Default), All({"duration"}, Never)),
         All({"overrideKw", "duration"}, AsIs), "once", "replace")

TelematicsInputs == All({"soc", "soh", "range", "odometer", "pluggedIn"}, NonNegative)

\* The drawer's state begins anew with every vehicle: its hooks follow an early return.
TelematicsForm ==
    Form(TelematicsInputs, All(DOMAIN TelematicsInputs, Nullish),
         All(DOMAIN TelematicsInputs, AsIs), "opening", "merge")

-----------------------------------------------------------------------------

Forms ==
    [vehicle |-> VehicleForm, bay |-> BayForm, token |-> TokenForm, replace |-> ReplaceForm,
     block |-> BlockForm, group |-> GroupForm, tariff |-> TariffForm, tier |-> TierForm,
     costBasis |-> CostForm, guardrails |-> GuardrailForm, override |-> OverrideForm,
     telematics |-> TelematicsForm]
==============================================================================
