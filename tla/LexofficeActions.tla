---------------------------- MODULE LexofficeActions ---------------------------
(* connectors/lexoffice: contacts and vouchers.  All but the upload of an   *)
(* attachment goes through retryOn429.                                      *)
EXTENDS ActionRow

Retrying(a) == [a EXCEPT !.retries = TRUE]

GetProfile     == Retrying(Read("profile", {}))
ListContacts   == Retrying(Read("contact", {}))
GetContact     == Retrying(Read("contact", {"id"}))
ListCategories == Retrying(Read("category", {}))
ListVouchers   == Retrying(Read("voucher", {"voucher_type"}))
\* Falls back from the endpoint of the type to the general one on 404.
GetVoucher     == [Retrying(Read("voucher", {"id", "voucher_type"})) EXCEPT !.lookup = TRUE]

\* The id of the file comes from up to two other requests.
ResolveFileID(a) == [a EXCEPT !.lookup = TRUE]
DownloadVoucherPDF ==
    [ResolveFileID(Retrying(Read("voucher", {"id", "voucher_type", "out"}))) EXCEPT !.saves = TRUE]

\* The amounts in the body are computed from net, gross, tax and rate.
CreatePurchaseVoucher ==
    [Retrying(Create("voucher", {"contact_id", "category_id", "number", "date"})) EXCEPT
        !.always = {"contact_id", "category_id", "number", "date", "remark", "rate"},
        !.defaults = {"rate"}, !.refills = {"rate"}, !.set = {"due"},
        !.followUp = {"pdf"}]
AttachVoucherFile == Send("voucher", {"voucher_id", "file"})

Rows == {GetProfile, ListContacts, GetContact, ListCategories, ListVouchers, GetVoucher,
         DownloadVoucherPDF, CreatePurchaseVoucher, AttachVoucherFile}
================================================================================
