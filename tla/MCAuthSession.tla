---------------------------- MODULE MCAuthSession ----------------------------
EXTENDS AuthSession

CONSTANTS t1, t2, k1, k2, bypass, s1

OneTab   == {t1}
TwoTabs  == {t1, t2}
OneSuper == {s1}
NoSupers == {}
=============================================================================
