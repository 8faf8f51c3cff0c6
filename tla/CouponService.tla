--------------------------- MODULE CouponService ---------------------------
(***************************************************************************)
(* app/coupons/service.py: the admin's operations on coupons, the check a  *)
(* checkout makes of a code, and the two halves of increment_usage, which  *)
(* the checkout runs in a second transaction after its booking committed.  *)
(***************************************************************************)
EXTENDS BookingTable

CONSTANTS MaxUses,  \* bound: usage limits an admin may set
          MaxRows   \* bound: times the same code is created

VARIABLE coupons  \* by code: the row that has it, if any

(* row is the row's primary key: a code that is deleted and created again  *)
(* belongs to another row, whose count starts again.                       *)
CouponRow == [row : Nat, present : BOOLEAN, is_active : BOOLEAN,
              usage_limit : Nat \cup {NULL}, used_count : Nat]

NoCoupon(row) == [row |-> row, present |-> FALSE, is_active |-> FALSE,
                  usage_limit |-> NULL, used_count |-> 0]

Limits == 1 .. MaxUses \cup {NULL}

CouponPresent(c) == coupons[c].present

(* create_coupon: the code must be new; used_count starts at 0.            *)
CreateCoupon(c) ==
  /\ ~CouponPresent(c)
  /\ coupons[c].row < MaxRows
  /\ \E limit \in Limits :
       coupons' = [coupons EXCEPT ![c] =
                     [row |-> coupons[c].row + 1, present |-> TRUE,
                      is_active |-> TRUE, usage_limit |-> limit,
                      used_count |-> 0]]

(* update_coupon: the fields of CouponUpdate that the checkout reads; the  *)
(* UPDATE never touches used_count.                                        *)
UpdateCoupon(c) ==
  /\ CouponPresent(c)
  /\ \E active \in BOOLEAN, limit \in Limits :
       coupons' = [coupons EXCEPT ![c].is_active = active,
                                  ![c].usage_limit = limit]

(* delete_coupon.                                                          *)
DeleteCoupon(c) ==
  /\ CouponPresent(c)
  /\ coupons' = [coupons EXCEPT ![c] = NoCoupon(coupons[c].row)]

CouponAdmin == \E c \in Coupon : CreateCoupon(c) \/ UpdateCoupon(c) \/ DeleteCoupon(c)

(* validate_and_compute_discount: what must hold of the row for it to      *)
(* return a discount.  The window, minimum and scope checks depend on the  *)
(* request only: its callers take them as one more way to be refused.      *)
Redeemable(c) ==
  /\ CouponPresent(c)
  /\ coupons[c].is_active
  /\ coupons[c].usage_limit # NULL => coupons[c].used_count < coupons[c].usage_limit

(* increment_usage: UPDATE coupons SET used_count = <read> + 1.            *)
WriteUsedCount(c, count) == coupons' = [coupons EXCEPT ![c].used_count = count + 1]

CouponInit == coupons = [c \in Coupon |-> NoCoupon(0)]

CouponTypeOK == coupons \in [Coupon -> CouponRow]

=============================================================================
