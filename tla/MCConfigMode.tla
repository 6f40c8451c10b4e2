---------------------------- MODULE MCConfigMode ----------------------------
EXTENDS ConfigMode

MCNetworks  == <<<<"n">>, <<"=", "m">>>>
\* "&" and "=" are what is escaped; what is not, "%" and "+", is in MCOddPasswords
MCPasswords    == {<<"&", "a", "=">>}
\* A picture that all but ends several times
MCPictures == {<<"x", "\r", "\n", "-", "-", "x", "\r", "\n", "-">>}

MCOddPasswords == {<<"a", "+", "b">>}
=============================================================================
