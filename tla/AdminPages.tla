----------------------------- MODULE AdminPages -----------------------------
(***************************************************************************)
(* What the pages of the admin console (mapletyne-admin/src/pages) are     *)
(* wired from: the queries a page mounts, the mutations it declares, the   *)
(* dialogs it opens and the controls its markup offers.  AdminConsole      *)
(* gives the pages their behaviour.                                        *)
(*                                                                         *)
(* A query reads, and a mutation writes, parts of the database: two of     *)
(* them meet in a part when the write changes what the query returns.      *)
(* Query keys match by prefix (useQuery, invalidateQueries), so a          *)
(* mutation refetches the queries whose key extends one it names.          *)
(***************************************************************************)

\* polls: the query has a refetchInterval.  hides: its queryFn turns a failed
\* request into an empty answer.
Query(reads, polls, hides) == [reads |-> reads, polls |-> polls, hides |-> hides]

\* What a successful mutation changes on the server, which queries its onSuccess
\* invalidates and which dialogs it closes.
Mutation(writes, refetches, closes) ==
    [writes |-> writes, refetches |-> refetches, closes |-> closes]

\* A piece of a page: the dialogs it opens and the mutations it sends itself.
Controls(opens, sends) == [opens |-> opens, sends |-> sends]

Page(queries, mutations, dialogs, parts) ==
    [queries |-> queries, mutations |-> mutations, dialogs |-> dialogs, parts |-> parts]

\* The disjoint union of two tables.
Both(f, g) == [x \in DOMAIN f \cup DOMAIN g |-> IF x \in DOMAIN f THEN f[x] ELSE g[x]]

NoControls == Controls({}, {})
NoMutations == [m \in {} |-> Mutation({}, {}, {})]

-----------------------------------------------------------------------------
(* RFID tokens and fleet groups.  The groups' cards count their tokens.  The *)
(* drawers' queries run only while the drawer is open.                       *)

TokenQueries == [tokens |-> Query({"tokens", "token status", "group names"}, FALSE, FALSE)]
GroupQueries == [groups |-> Query({"groups", "tokens"}, FALSE, FALSE)]

TokenMutations ==
    [issueToken   |-> Mutation({"tokens"}, {"tokens", "groups"}, {"token"}),
     updateToken  |-> Mutation({"tokens"}, {"tokens"}, {"token"}),
     blockToken   |-> Mutation({"token status"}, {"tokens"}, {"block"}),
     unblockToken |-> Mutation({"token status"}, {"tokens"}, {}),
     replaceToken |-> Mutation({"tokens", "token status"}, {"tokens", "groups"}, {"replace"}),
     revokeToken  |-> Mutation({"token status"}, {"tokens", "groups"}, {}),
     purgeTest    |-> Mutation({"tokens"}, {"tokens"}, {})]

GroupMutations ==
    [createGroup |-> Mutation({"groups"}, {"groups"}, {"group"}),
     updateGroup |-> Mutation({"groups", "group names"}, {"groups"}, {"group"}),
     deleteGroup |-> Mutation({"groups", "group names"}, {"groups"}, {})]

RfidHeader == Controls({"group", "token"}, {"purgeTest"})
TokenRow == Controls({"block", "replace", "sessions", "audit", "token"},
                     {"unblockToken", "revokeToken"})
GroupCard == Controls({"usage", "group"}, {"deleteGroup"})

RfidDialogs ==
    [token    |-> {"issueToken", "updateToken"},
     replace  |-> {"replaceToken"},
     block    |-> {"blockToken"},
     audit    |-> {},
     sessions |-> {},
     group    |-> {"createGroup", "updateGroup"},
     usage    |-> {}]

RfidFleetPage ==
    Page(Both(TokenQueries, GroupQueries), Both(TokenMutations, GroupMutations),
         RfidDialogs, {RfidHeader, TokenRow, GroupCard})

-----------------------------------------------------------------------------
(* Fleet vehicles, depot bays and schedules: every query polls.              *)

VehicleQueries ==
    [vehicles  |-> Query({"vehicles", "telematics"}, TRUE, FALSE),
     snapshot  |-> Query({"bays", "vehicles", "telematics", "schedules", "override"}, TRUE, FALSE),
     schedules |-> Query({"schedules", "vehicles", "telematics"}, TRUE, FALSE),
     override  |-> Query({"override"}, TRUE, FALSE)]

VehicleMutations ==
    [createVehicle  |-> Mutation({"vehicles"}, {"vehicles"}, {"vehicle"}),
     patchVehicle   |-> Mutation({"vehicles"}, {"vehicles"}, {"vehicle"}),
     deleteVehicle  |-> Mutation({"vehicles"}, {"vehicles"}, {}),
     syncTelematics |-> Mutation({"telematics"}, {"vehicles", "snapshot"}, {})]

DepotMutations ==
    [createBay      |-> Mutation({"bays"}, {"snapshot"}, {"bay"}),
     patchBay       |-> Mutation({"bays"}, {"snapshot"}, {"bay"}),
     setOverride    |-> Mutation({"override"}, {"override", "snapshot"}, {"override"}),
     cancelOverride |-> Mutation({"override"}, {"override", "snapshot"}, {})]

VehiclesHeader == Controls({"override", "vehicle"}, {})
VehicleRow == Controls({"telematics", "vehicleSessions", "vehicle"}, {"deleteVehicle"})
DepotTab == Controls({"bay"}, {})

VehicleDialogs ==
    [vehicle         |-> {"createVehicle", "patchVehicle"},
     vehicleSessions |-> {},
     telematics      |-> {"syncTelematics"},
     bay             |-> {"createBay", "patchBay"},
     override        |-> {"setOverride", "cancelOverride"}]

VehiclesPage ==
    Page(VehicleQueries, Both(VehicleMutations, DepotMutations), VehicleDialogs,
         {VehiclesHeader, VehicleRow, DepotTab})

-----------------------------------------------------------------------------
(* Chargers.  A remote command changes nothing in the database itself: what   *)
(* the charger makes of it arrives by OCPP.                                   *)

ChargerQuery == [chargers |-> Query({"chargers"}, FALSE, FALSE)]

ProvisionMutation == [provision |-> Mutation({"chargers"}, {"chargers"}, {"provision"})]
CommandMutation == [command |-> Mutation({}, {"chargers"}, {})]

ChargersHeader == Controls({"provision"}, {})
ChargerCard == Controls({"charger"}, {"command"})
ChargerRow == Controls({"charger"}, {"command"})

\* The drawer's control tab: start, stop, unlock, reset, self-heal, power limit.
ChargerDrawer == [charger |-> {"command"}]
ProvisionDialog == [provision |-> {"provision"}]

ChargersPage ==
    Page(ChargerQuery, Both(ProvisionMutation, CommandMutation),
         Both(ChargerDrawer, ProvisionDialog), {ChargersHeader, ChargerCard, ChargerRow})

-----------------------------------------------------------------------------
(* Tariffs, pricing tiers and the cost basis.                                *)

TariffQueries == [tariffs |-> Query({"tariffs"}, FALSE, FALSE)]
PricingQuery == [pricing |-> Query({"tiers", "cost basis"}, FALSE, FALSE)]

TariffMutations ==
    [createTariff |-> Mutation({"tariffs"}, {"tariffs"}, {"tariff"}),
     updateTariff |-> Mutation({"tariffs"}, {"tariffs"}, {"tariff"}),
     deleteTariff |-> Mutation({"tariffs"}, {"tariffs"}, {})]

TierMutations ==
    [createTier   |-> Mutation({"tiers"}, {"pricing"}, {"tier"}),
     updateTier   |-> Mutation({"tiers"}, {"pricing"}, {"tier"}),
     updateConfig |-> Mutation({"cost basis"}, {"pricing"}, {})]

TariffsHeader == Controls({"tier", "tariff"}, {})
TariffCard == Controls({"detail", "tariff"}, {"deleteTariff"})
TariffRow == Controls({"detail", "tariff"}, {"deleteTariff"})
TierList == Controls({"tier"}, {})
CostBasis == Controls({}, {"updateConfig"})

\* The detail dialog sends nothing; its Edit button opens the tariff dialog.
TariffDialogs ==
    [detail |-> {},
     tariff |-> {"createTariff", "updateTariff"},
     tier   |-> {"createTier", "updateTier"}]

TariffsPage ==
    Page(Both(TariffQueries, PricingQuery), Both(TariffMutations, TierMutations),
         TariffDialogs, {TariffsHeader, TariffCard, TariffRow, TierList, CostBasis})

-----------------------------------------------------------------------------
(* OCPI roaming partners.  Both queries turn a failure into "no partners".   *)

RoamingQueries ==
    [partners   |-> Query({"partners"}, FALSE, TRUE),
     ocpiStatus |-> Query({"partners"}, FALSE, TRUE)]

\* A successful connection shows the generated token in a dialog of its own.
PartnerMutations ==
    [createPartner |-> Mutation({"partners"}, {"partners", "ocpiStatus"}, {"connect"}),
     testPartner   |-> Mutation({}, {}, {}),
     syncPartner   |-> Mutation({"partners"}, {"partners", "ocpiStatus"}, {}),
     deletePartner |-> Mutation({"partners"}, {"partners", "ocpiStatus"}, {})]

RoamingHeader == Controls({"connect"}, {})
PartnerCard == Controls({"partner"}, {"testPartner", "syncPartner", "deletePartner"})

ConnectDialog == [connect |-> {"createPartner"}]
PartnerDialog == [partner |-> {"testPartner", "syncPartner"}]

RoamingPage ==
    Page(RoamingQueries, PartnerMutations, Both(ConnectDialog, PartnerDialog),
         {RoamingHeader, PartnerCard})

-----------------------------------------------------------------------------
(* The certificate vault.                                                    *)

PkiQueries ==
    [pkiStats     |-> Query({"certificates"}, FALSE, TRUE),
     pkiChargers  |-> Query({"chargers"}, FALSE, TRUE),
     certificates |-> Query({"certificates"}, FALSE, FALSE)]

PkiMutations ==
    [issueCertificate  |-> Mutation({"certificates"}, {"pkiStats", "certificates"}, {"sign"}),
     revokeCertificate |-> Mutation({"certificates"}, {"pkiStats", "certificates"}, {"revoke"})]

PkiHeader == Controls({"sign"}, {})
CertificateRow == Controls({"revoke"}, {})

SignDialog == [sign |-> {"issueCertificate"}]
RevokeDialog == [revoke |-> {"revokeCertificate"}]

PkiVaultPage ==
    Page(PkiQueries, PkiMutations, Both(SignDialog, RevokeDialog), {PkiHeader, CertificateRow})

-----------------------------------------------------------------------------
(* Energy management, and the pages that only show.                          *)

EmsQueries ==
    [emsLive   |-> Query({"telemetry"}, TRUE, TRUE),
     emsSites  |-> Query({"sites"}, FALSE, TRUE),
     stations  |-> Query({"chargers"}, TRUE, FALSE)]

SiteMutation == [updateSite |-> Mutation({"sites"}, {"emsSites", "emsLive"}, {})]
ThrottleMutation == [throttle |-> Mutation({}, {"stations"}, {})]
ProfileMutation == [dispatchProfile |-> Mutation({}, {"stations"}, {})]
EmsMutations == Both(SiteMutation, Both(ThrottleMutation, ProfileMutation))

Guardrails == Controls({}, {"updateSite"})
Dispatcher == Controls({}, {"dispatchProfile"})
StationTable == Controls({}, {"throttle"})

EmsPage == Page(EmsQueries, EmsMutations, NoMutations, {Guardrails, Dispatcher, StationTable})

DashboardPage ==
    Page([stats         |-> Query({"sessions"}, TRUE, FALSE),
          dashChargers  |-> Query({"chargers"}, FALSE, FALSE),
          dashEms       |-> Query({"telemetry"}, FALSE, TRUE)],
         NoMutations, NoMutations, {NoControls})

SessionsPage ==
    Page([sessions |-> Query({"sessions"}, TRUE, FALSE),
          sites    |-> Query({"chargers"}, FALSE, FALSE)],
         NoMutations, [details |-> {}], {Controls({"details"}, {})})

\* The routes inside the shell; the settings page is in SettingsForms.
Pages ==
    [dashboard |-> DashboardPage, chargers |-> ChargersPage, sessions |-> SessionsPage,
     tariffs |-> TariffsPage, rfid |-> RfidFleetPage, vehicles |-> VehiclesPage,
     pki |-> PkiVaultPage, ems |-> EmsPage, roaming |-> RoamingPage]
==============================================================================
