----------------------------- MODULE MCPlFrame -----------------------------
EXTENDS PlFrame

AllIndices == 1..9

\* A field that begins with data, or with pilots that leave the data at odd places.
MCMaps == {{1, 2, 5}, {0, 3, 4}}
=============================================================================
