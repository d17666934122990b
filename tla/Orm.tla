-------------------------------- MODULE Orm --------------------------------
(***************************************************************************)
(* The twelve generated classes: models/*.cc of the hmdp back end and User *)
(* of the user center, one of them in each behaviour.                      *)
(***************************************************************************)
EXTENDS Integers

CONSTANTS
  AnyInput,   \* TRUE: any JSON, see OrmTable
  Aliases     \* the aliases there are, besides the names of columns
ASSUME InputAssumption == AnyInput \in BOOLEAN

VARIABLES class, row, pc, obj, sent, checked, last

vars == <<class, row, pc, obj, sent, checked, last>>

Blog == INSTANCE TbBlog
BlogComments == INSTANCE TbBlogComments
Follow == INSTANCE TbFollow
SeckillVoucher == INSTANCE TbSeckillVoucher
Shop == INSTANCE TbShop
ShopType == INSTANCE TbShopType
Sign == INSTANCE TbSign
HmdpUser == INSTANCE TbUser
UserInfo == INSTANCE TbUserInfo
Voucher == INSTANCE TbVoucher
VoucherOrder == INSTANCE TbVoucherOrder
CenterUser == INSTANCE User

Init ==
  \/ class = "TbBlog" /\ Blog!Table!Init
  \/ class = "TbBlogComments" /\ BlogComments!Table!Init
  \/ class = "TbFollow" /\ Follow!Table!Init
  \/ class = "TbSeckillVoucher" /\ SeckillVoucher!Table!Init
  \/ class = "TbShop" /\ Shop!Table!Init
  \/ class = "TbShopType" /\ ShopType!Table!Init
  \/ class = "TbSign" /\ Sign!Table!Init
  \/ class = "TbUser" /\ HmdpUser!Table!Init
  \/ class = "TbUserInfo" /\ UserInfo!Table!Init
  \/ class = "TbVoucher" /\ Voucher!Table!Init
  \/ class = "TbVoucherOrder" /\ VoucherOrder!Table!Init
  \/ class = "User" /\ CenterUser!Table!Init

Next ==
  /\ \/ class = "TbBlog" /\ Blog!Table!Next
     \/ class = "TbBlogComments" /\ BlogComments!Table!Next
     \/ class = "TbFollow" /\ Follow!Table!Next
     \/ class = "TbSeckillVoucher" /\ SeckillVoucher!Table!Next
     \/ class = "TbShop" /\ Shop!Table!Next
     \/ class = "TbShopType" /\ ShopType!Table!Next
     \/ class = "TbSign" /\ Sign!Table!Next
     \/ class = "TbUser" /\ HmdpUser!Table!Next
     \/ class = "TbUserInfo" /\ UserInfo!Table!Next
     \/ class = "TbVoucher" /\ Voucher!Table!Next
     \/ class = "TbVoucherOrder" /\ VoucherOrder!Table!Next
     \/ class = "User" /\ CenterUser!Table!Next
  /\ UNCHANGED class

Spec == Init /\ [][Next]_vars

-----------------------------------------------------------------------------
(* Properties, each stated by OrmTable for one class *)

TypeOK ==
  /\ class = "TbBlog" => Blog!Table!TypeOK
  /\ class = "TbBlogComments" => BlogComments!Table!TypeOK
  /\ class = "TbFollow" => Follow!Table!TypeOK
  /\ class = "TbSeckillVoucher" => SeckillVoucher!Table!TypeOK
  /\ class = "TbShop" => Shop!Table!TypeOK
  /\ class = "TbShopType" => ShopType!Table!TypeOK
  /\ class = "TbSign" => Sign!Table!TypeOK
  /\ class = "TbUser" => HmdpUser!Table!TypeOK
  /\ class = "TbUserInfo" => UserInfo!Table!TypeOK
  /\ class = "TbVoucher" => Voucher!Table!TypeOK
  /\ class = "TbVoucherOrder" => VoucherOrder!Table!TypeOK
  /\ class = "User" => CenterUser!Table!TypeOK

InsertedAsSent ==
  /\ class = "TbBlog" => Blog!Table!InsertedAsSent
  /\ class = "TbBlogComments" => BlogComments!Table!InsertedAsSent
  /\ class = "TbFollow" => Follow!Table!InsertedAsSent
  /\ class = "TbSeckillVoucher" => SeckillVoucher!Table!InsertedAsSent
  /\ class = "TbShop" => Shop!Table!InsertedAsSent
  /\ class = "TbShopType" => ShopType!Table!InsertedAsSent
  /\ class = "TbSign" => Sign!Table!InsertedAsSent
  /\ class = "TbUser" => HmdpUser!Table!InsertedAsSent
  /\ class = "TbUserInfo" => UserInfo!Table!InsertedAsSent
  /\ class = "TbVoucher" => Voucher!Table!InsertedAsSent
  /\ class = "TbVoucherOrder" => VoucherOrder!Table!InsertedAsSent
  /\ class = "User" => CenterUser!Table!InsertedAsSent

ValidatedIsStored ==
  /\ class = "TbBlog" => Blog!Table!ValidatedIsStored
  /\ class = "TbBlogComments" => BlogComments!Table!ValidatedIsStored
  /\ class = "TbFollow" => Follow!Table!ValidatedIsStored
  /\ class = "TbSeckillVoucher" => SeckillVoucher!Table!ValidatedIsStored
  /\ class = "TbShop" => Shop!Table!ValidatedIsStored
  /\ class = "TbShopType" => ShopType!Table!ValidatedIsStored
  /\ class = "TbSign" => Sign!Table!ValidatedIsStored
  /\ class = "TbUser" => HmdpUser!Table!ValidatedIsStored
  /\ class = "TbUserInfo" => UserInfo!Table!ValidatedIsStored
  /\ class = "TbVoucher" => Voucher!Table!ValidatedIsStored
  /\ class = "TbVoucherOrder" => VoucherOrder!Table!ValidatedIsStored
  /\ class = "User" => CenterUser!Table!ValidatedIsStored

SentValuesStay ==
  /\ class = "TbBlog" => Blog!Table!SentValuesStay
  /\ class = "TbBlogComments" => BlogComments!Table!SentValuesStay
  /\ class = "TbFollow" => Follow!Table!SentValuesStay
  /\ class = "TbSeckillVoucher" => SeckillVoucher!Table!SentValuesStay
  /\ class = "TbShop" => Shop!Table!SentValuesStay
  /\ class = "TbShopType" => ShopType!Table!SentValuesStay
  /\ class = "TbSign" => Sign!Table!SentValuesStay
  /\ class = "TbUser" => HmdpUser!Table!SentValuesStay
  /\ class = "TbUserInfo" => UserInfo!Table!SentValuesStay
  /\ class = "TbVoucher" => Voucher!Table!SentValuesStay
  /\ class = "TbVoucherOrder" => VoucherOrder!Table!SentValuesStay
  /\ class = "User" => CenterUser!Table!SentValuesStay

RoundTrip ==
  /\ class = "TbBlog" => Blog!Table!RoundTrip
  /\ class = "TbBlogComments" => BlogComments!Table!RoundTrip
  /\ class = "TbFollow" => Follow!Table!RoundTrip
  /\ class = "TbSeckillVoucher" => SeckillVoucher!Table!RoundTrip
  /\ class = "TbShop" => Shop!Table!RoundTrip
  /\ class = "TbShopType" => ShopType!Table!RoundTrip
  /\ class = "TbSign" => Sign!Table!RoundTrip
  /\ class = "TbUser" => HmdpUser!Table!RoundTrip
  /\ class = "TbUserInfo" => UserInfo!Table!RoundTrip
  /\ class = "TbVoucher" => Voucher!Table!RoundTrip
  /\ class = "TbVoucherOrder" => VoucherOrder!Table!RoundTrip
  /\ class = "User" => CenterUser!Table!RoundTrip
=============================================================================
