----------------------------- MODULE MCDirectFace -----------------------------
EXTENDS DirectFace

MCName == {<<1, 1>>, <<1, 2>>}

MCPrefix == {<<1>>}
===============================================================================
