----------------------------- MODULE MCSSLProto -----------------------------
EXTENDS SSLProto

MCReadLimits == {<<2, 1>>, <<1, 0>>}
MCWriteLimits == {<<2, 1>>, <<1, 0>>}

\* The least that set_read_buffer_limits(high=0) needs.
MCZeroReadLimits == {<<1, 0>>, <<0, 0>>}
MCOneWriteLimit == {<<1, 0>>}
=============================================================================
