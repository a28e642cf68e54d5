--------------------------- MODULE SettingsFields ---------------------------
(***************************************************************************)
(* The settings of the settings page: the group each is loaded from, the   *)
(* value it has before anything is loaded, what an input can do to it, and *)
(* what each save sends.  SettingsForms gives the page its behaviour.      *)
(***************************************************************************)

Setting(group, start) ==
    [group |-> group, start |-> start, input |-> TRUE, secret |-> FALSE, always |-> FALSE]
Unseen(group, start) == [Setting(group, start) EXCEPT !.input = FALSE]
Secret(group) == [Setting(group, "blank") EXCEPT !.secret = TRUE]

\* Loaded even when it is false or zero.
Always(entry) == [entry EXCEPT !.always = TRUE]

Table(S, v) == [x \in S |-> v]
And(f, g) == [x \in DOMAIN f \cup DOMAIN g |-> IF x \in DOMAIN f THEN f[x] ELSE g[x]]

OrgIdentity ==
    Table({"companyName", "legalEntity", "taxVatId", "regNumber"}, Setting("organization", "blank"))

OrgAddress ==
    Table({"addressLine1", "addressLine2", "city", "stateProvince", "postalCode", "country"},
          Setting("organization", "blank"))

OrgContact ==
    And(Table({"invoicingEmail", "supportHotline", "websiteUrl"}, Setting("organization", "blank")),
        Table({"currency", "timezone"}, Setting("organization", "std")))

BrandLogo == Table({"logoUrl", "logoDataUri"}, Setting("branding", "blank"))

BrandTitles == Table({"appTitle", "portalTagline"}, Setting("branding", "std"))

\* Two of the colours have no input, nor has the icon.
BrandColors ==
    And(Table({"primaryColor", "secondaryColor", "accentColor"}, Setting("branding", "std")),
        And(Table({"bgColor", "cardColor"}, Unseen("branding", "std")),
            Table({"faviconUrl"}, Unseen("branding", "blank"))))

SmtpSettings ==
    And(And(Table({"smtpHost", "smtpUser", "smtpFromAddress"}, Setting("smtp", "blank")),
            Table({"smtpPassword"}, Secret("smtp"))),
        And(Table({"smtpPort", "smtpFromName"}, Setting("smtp", "std")),
            Table({"smtpTls"}, Always(Setting("smtp", "std")))))

SmsSettings ==
    And(And(Table({"smsAccountSid", "smsApiKey"}, Secret("sms")),
            Table({"otpEnabled"}, Always(Unseen("sms", "std")))),
        Table({"smsProvider", "smsSenderId", "otpCodeLength", "otpTtlSeconds"},
              Setting("sms", "std")))

OcpiSettings ==
    And(Table({"ocpiOperatorName"}, Setting("ocpi", "blank")),
        And(Table({"ocpiRole"}, Unseen("ocpi", "std")),
            Table({"ocpiCountryCode", "ocpiPartyId", "ocpiBaseUrl", "ocpiVersionsPath"},
                  Setting("ocpi", "std"))))

PayoutSettings ==
    And(Table({"payoutSchedule"}, Setting("payouts", "std")),
        Table({"autoSettlement", "defaultSplitPct", "minimumPayout"},
              Always(Setting("payouts", "std"))))

Settings ==
    And(And(And(OrgIdentity, OrgAddress), And(OrgContact, BrandLogo)),
    And(And(BrandTitles, BrandColors), And(And(SmtpSettings, SmsSettings),
                                          And(OcpiSettings, PayoutSettings))))

\* What each save sends.  The branding takes the company and its contact along, the
\* payouts the organization's currency, as they stand in the other tabs.
OrgBody == DOMAIN OrgIdentity \cup DOMAIN OrgAddress \cup DOMAIN OrgContact
BrandingBody ==
    DOMAIN BrandLogo \cup DOMAIN BrandTitles \cup DOMAIN BrandColors
        \cup {"companyName", "legalEntity", "taxVatId", "invoicingEmail"}
SmtpBody == DOMAIN SmtpSettings
SmsBody == DOMAIN SmsSettings
OcpiBody == DOMAIN OcpiSettings
PayoutsBody == DOMAIN PayoutSettings \cup {"currency"}

Bodies == [organization |-> OrgBody, branding |-> BrandingBody, smtp |-> SmtpBody,
           sms |-> SmsBody, ocpi |-> OcpiBody, payouts |-> PayoutsBody]
==============================================================================
